---- MODULE Spec2Model ----
(***************************************************************************)
(* Execution and settlement engine of FinancialSimulation.                 *)
(*                                                                         *)
(* simulation_kernel.run drives strategy_base.tick once per day.  A tick   *)
(* clears the T+1 freeze, executes the orders queued for the next open,    *)
(* asks the strategy for its choices, evaluates the promises (conditional  *)
(* orders), executes or queues the resulting choices and records the       *)
(* day's equity.  Python floats are modelled as exact rationals            *)
(* [n |-> numerator, d |-> denominator], d > 0, in lowest terms; the       *)
(* value None is the record with d = 0.  Datetimes are day numbers and     *)
(* the interval of the kernel is a number of days.                         *)
(***************************************************************************)
EXTENDS Integers, Sequences, FiniteSets, TLC

(*************************** bounds of the model ***************************)
\* end_time of the kernel; the run starts at day 1
MaxDay == 2
\* orders the strategy gives over a run: the choices make_choice returns
\* and the promises it creates
MaxOrders == 3

\* calls of stock_info.initialize on one cache file
MaxInits == 2
\* calls of stock_info.update by the caller on one cache file
MaxUpdates == 1

(************************* values of the source ****************************)
\* stock_info.__init__: start_time - datetime.timedelta(days=365)
LookbackDays == 365
\* stock_info.initialize: req_end - datetime.timedelta(days=4)
SlackDays == 4

(********************** exact rational arithmetic **************************)
RECURSIVE GCD(_, _)
GCD(a, b) == IF b = 0 THEN a ELSE GCD(b, a % b)

IAbs(i) == IF i < 0 THEN -i ELSE i

\* the rational n/d in lowest terms, d # 0
R(n, d) ==
    LET g == GCD(IAbs(n), IAbs(d))
        s == IF d < 0 THEN -1 ELSE 1
    IN  [n |-> s * (n \div g), d |-> s * (d \div g)]

None == [n |-> 0, d |-> 0]
IsNone(x) == x.d = 0
Zero == R(0, 1)
One == R(1, 1)
RInt(i) == R(i, 1)

\* sums, products and comparisons cancel common factors before they
\* multiply, which keeps the intermediate integers small
RAdd(x, y) ==
    R(x.n * (y.d \div GCD(x.d, y.d)) + y.n * (x.d \div GCD(x.d, y.d)),
      (x.d \div GCD(x.d, y.d)) * y.d)
RNeg(x) == [n |-> -x.n, d |-> x.d]
RSub(x, y) == RAdd(x, RNeg(y))
RMul(x, y) ==
    IF x.n = 0 \/ y.n = 0 THEN R(0, 1)
    ELSE R((x.n \div GCD(IAbs(x.n), y.d)) * (y.n \div GCD(IAbs(y.n), x.d)),
           (x.d \div GCD(IAbs(y.n), x.d)) * (y.d \div GCD(IAbs(x.n), y.d)))
\* x / y for y # 0
RDiv(x, y) == R(x.n * y.d, x.d * y.n)
RLt(x, y) == x.n * (y.d \div GCD(x.d, y.d)) < y.n * (x.d \div GCD(x.d, y.d))
RLe(x, y) == x.n * (y.d \div GCD(x.d, y.d)) <= y.n * (x.d \div GCD(x.d, y.d))
RGt(x, y) == RLt(y, x)
RGe(x, y) == RLe(y, x)
RMax(x, y) == IF RLt(x, y) THEN y ELSE x
RAbs(x) == [n |-> IAbs(x.n), d |-> x.d]

(******************************** state ***********************************)
VARIABLES
    stock_names,        \* strategy_base.stock_names
    interval,           \* simulation_kernel.__interval__, in days
    stocks_info,        \* simulation_kernel.__stocks_info__: ticket -> stock_info
    current_time,       \* simulation_kernel.__current_time__
    market_config,      \* strategy_base.market_config
    initial_money,      \* strategy_base.initial_money
    changed_money,      \* strategy_base.changed_money
    hold_stock_number,  \* strategy_base.hold_stock_number
    frozen_stock,       \* strategy_base.frozen_stock
    queued_orders,      \* strategy_base.queued_orders
    promises,           \* strategy_base.promises
    initialized,        \* strategy_base.initialized
    today_time,         \* strategy_base.today_time
    records,            \* investment_record.records
    daily_equity,       \* investment_record.daily_equity
    pc,                 \* position inside run / tick
    queued_to_process,  \* tick: the copy of the queue being executed
    choice_list,        \* tick: the choices still to be handled
    orders_made,        \* number of orders the strategy has given so far
    fills,              \* per record: the ledger before and after the fill
    promised,           \* the ids of the promises done so far, in order
    history,            \* make_choice: the price history it gets, by ticket
    store_cache,        \* stock_info: the file at __get_cache_path()
    store_source,       \* stock_info: what the data source answers to a fetch
    store_raw_data,     \* stock_info.raw_data
    store_price_data,   \* stock_info.history_price_data
    store_fetches,      \* fetches made by the calls of initialize so far
    store_inits,        \* the frames the calls of initialize have left, in order
    store_updates,      \* the calls of stock_info.update by the caller
    store_phase,        \* simulation_kernel: "created", "initialized" or "running"
    ds_cache,           \* DataSourceBase: the file at _get_cache_path()
    ds_data,            \* DataSourceBase.data
    ds_phase,           \* DataSourceBase: "created", "initialized", "raised"
                        \* when initialize has raised the exception of a
                        \* download to its caller, "raised_by_update_cache"
                        \* or "raised_by_get_data_range"
    config_objects,     \* the MarketConfig objects: the first is the default
                        \* value of strategy_base.__init__
    strategies,         \* the strategies constructed, each with the objects
                        \* its market_config and its investment_record refer to
    statistics,         \* what the last call of get_statistics has returned
    returned_records    \* what the last call of get_records has returned

engine_vars == <<stock_names, interval, stocks_info, current_time, market_config, initial_money, changed_money,
                 hold_stock_number, frozen_stock, queued_orders, promises, initialized,
                 today_time, records, daily_equity, pc, queued_to_process, choice_list,
                 orders_made, fills, promised, history>>

ds_vars == <<ds_cache, ds_data, ds_phase>>

store_vars == <<store_cache, store_source, store_raw_data, store_price_data, store_fetches,
                store_inits, store_updates, store_phase, ds_vars>>

report_vars == <<statistics, returned_records>>

config_vars == <<config_objects, strategies>>

vars == <<engine_vars, store_vars, report_vars, config_vars>>

\* the stocks of the strategy
Tickets == {stock_names[i] : i \in 1..Len(stock_names)}

(***************************** input domains ******************************)
\* strategy_base.stock_names of the strategy of a run
StockNames == <<"A">>

Days == 1..MaxDay

\* the interval of the kernel: every day or every second day
IntervalSet == {1, 2}

\* one dated row of history_price_data, or no row for the day
NoBar == [has |-> FALSE, open |-> None, close |-> None, volume |-> None]
Bar(o, c, v) == [has |-> TRUE, open |-> RInt(o), close |-> RInt(c), volume |-> RInt(v)]
BarSet == {NoBar, Bar(2, 1, 0), Bar(1, 2, 4)}

\* the columns of the normalized frame
ColumnSets == {{"open", "close", "volume"}}

\* stock_info.__init__: history_price_data = pd.DataFrame(), which has no
\* column, no row and an index without a level "date".  It stays so when
\* initialize finds no cache file and the fetch fails or gives nothing
NeverFilled ==
    [index_names |-> {}, columns |-> {}, rows |-> [d \in Days |-> NoBar], raw_data |-> <<>>]

\* the frame __normalize_data leaves: its index is the column "date"; its
\* rows are those of raw_data, which has them in the order of the source
Normalized(columns, rows, raw_data) ==
    [index_names |-> {"date"}, columns |-> columns, rows |-> rows, raw_data |-> raw_data]

\* the orders in which a source may give the dated rows: raw_data as the
\* dates of its rows
RawOrders(rows) ==
    {raw \in [1..Cardinality({d \in Days : rows[d].has}) -> {d \in Days : rows[d].has}] :
        \A i, j \in DOMAIN raw : i # j => raw[i] # raw[j]}

\* stock_info: its frame, as the names of the index, the columns and the
\* rows by day; filled by __normalize_data, or never filled
StockInfos ==
    UNION {{Normalized(columns, rows, raw) : columns \in ColumnSets, raw \in RawOrders(rows)} :
               rows \in [Days -> BarSet]}
    \cup {NeverFilled}

T0 == "T+0"
T1 == "T+1"
CLOSE_TO_CLOSE == "Close"
NEXT_OPEN == "NextOpen"

\* MarketConfig: both settlements and both execution modes under a volume
\* limit, and one market without a volume limit
MarketConfigs ==
    [commission_rate : {R(1, 4)},
     min_commission : {RInt(1)},
     tax_rate : {R(1, 4)},
     settlement : {T0, T1},
     slippage_rate : {R(1, 2)},
     volume_limit_pct : {R(1, 2)},
     execution_mode : {CLOSE_TO_CLOSE, NEXT_OPEN}]
    \cup
    [commission_rate : {R(1, 4)},
     min_commission : {RInt(1)},
     tax_rate : {R(1, 4)},
     settlement : {T0},
     slippage_rate : {R(1, 2)},
     volume_limit_pct : {One},
     execution_mode : {CLOSE_TO_CLOSE}]

InitialMoneySet == {R(1, 2), RInt(6)}

Buy == "Buy"
Sell == "Sell"
DoNothing == "DoNothing"

AmountSet == {RInt(3)}

\* one entry {ticket: (action, amount)} of a choice
Intents ==
    [ticket : Tickets, action : {Buy, Sell}, amount : AmountSet]
    \cup [ticket : Tickets, action : {DoNothing}, amount : {Zero}]

RECURSIVE SeqsUpTo(_, _)
SeqsUpTo(S, k) ==
    IF k = 0 THEN {<<>>}
    ELSE LET shorter == SeqsUpTo(S, k - 1)
         IN  shorter \cup {Append(s, x) : s \in {t \in shorter : Len(t) = k - 1}, x \in S}


\* promise_buy / promise_sell: a purchase at 1 or below and a sale at 2 or
\* above, both to be done after day 1 whatever the price
PromiseSet ==
    [kind : {Buy}, promise_price : {RInt(1)}, promise_datetime : {1},
     ticket_name : Tickets, number : {RInt(1)}]
    \cup
    [kind : {Sell}, promise_price : {RInt(2)}, promise_datetime : {1},
     ticket_name : Tickets, number : {RInt(1)}]

(************************* Price History Store ****************************)
\* the exception of index.get_level_values("date") on an index that has no
\* level of that name
KeyError == [raised |-> "KeyError"]

\* the frame a lookup returns, as its rows
Frame(rows) == [rows |-> rows]

\* stock_info.get_today_price: the rows dated current_time (none or one);
\* KeyError on the frame that was never filled
get_today_price(info, t) ==
    IF "date" \notin info.index_names THEN KeyError
    ELSE Frame(IF t \in DOMAIN info.rows /\ info.rows[t].has THEN <<info.rows[t]>> ELSE <<>>)

\* index.min() and index.max() of a frame that is not empty
MinDate(frame) ==
    CHOOSE d \in {frame[i].date : i \in 1..Len(frame)} :
        \A i \in 1..Len(frame) : d <= frame[i].date
MaxDate(frame) ==
    CHOOSE d \in {frame[i].date : i \in 1..Len(frame)} :
        \A i \in 1..Len(frame) : d >= frame[i].date

\* frame.sort_index() of a frame with one row per date
RECURSIVE sort_index(_)
sort_index(frame) ==
    IF frame = <<>> THEN <<>>
    ELSE <<CHOOSE row \in {frame[i] : i \in 1..Len(frame)} : row.date = MinDate(frame)>>
         \o sort_index(SelectSeq(frame, LAMBDA row : row.date # MinDate(frame)))

\* stock_info.history_price_data as __normalize_data leaves it: the rows
\* of raw_data with their dates, sorted by date
history_price_data(info) ==
    sort_index([i \in 1..Len(info.raw_data) |->
                   [date |-> info.raw_data[i],
                    open |-> info.rows[info.raw_data[i]].open,
                    close |-> info.rows[info.raw_data[i]].close,
                    volume |-> info.rows[info.raw_data[i]].volume]])

\* a get_history_price that gives the whole frame
get_history_price_all(info, t) ==
    IF "date" \notin info.index_names THEN KeyError
    ELSE Frame(history_price_data(info))

\* stock_info.get_history_price: the rows dated current_time or before, in
\* the order of the frame; KeyError on the frame that was never filled
get_history_price(info, t) ==
    IF "date" \notin info.index_names THEN KeyError
    ELSE Frame(SelectSeq(history_price_data(info), LAMBDA row : row.date <= t))

\* extract_close_price: the close of today, None on a day without a row;
\* the KeyError of get_today_price is not caught
extract_close_price(info, t) ==
    IF get_today_price(info, t) = KeyError THEN KeyError
    ELSE IF Len(get_today_price(info, t).rows) > 0
    THEN get_today_price(info, t).rows[1].close
    ELSE None

\* an extract_open_price that gives the close price
extract_open_price_close(info, t) ==
    IF get_today_price(info, t) = KeyError THEN KeyError
    ELSE IF Len(get_today_price(info, t).rows) > 0
    THEN get_today_price(info, t).rows[1].close
    ELSE None

extract_open_price(info, t) ==
    IF get_today_price(info, t) = KeyError THEN KeyError
    ELSE IF Len(get_today_price(info, t).rows) > 0
    THEN IF "open" \in info.columns
         THEN get_today_price(info, t).rows[1].open
         ELSE get_today_price(info, t).rows[1].close
    ELSE None

extract_volume(info, t) ==
    IF get_today_price(info, t) = KeyError THEN KeyError
    ELSE IF Len(get_today_price(info, t).rows) > 0 /\ "volume" \in info.columns
    THEN get_today_price(info, t).rows[1].volume
    ELSE Zero

(************************ investment_record *******************************)
\* a SlippedPrice without slippage
SlippedPriceRaw(cfg, choice, raw_price) == raw_price

\* handle_choice: the price after slippage
SlippedPrice(cfg, choice, raw_price) ==
    IF choice = Buy THEN RMul(raw_price, RAdd(One, cfg.slippage_rate))
    ELSE IF choice = Sell THEN RMul(raw_price, RSub(One, cfg.slippage_rate))
    ELSE raw_price

\* a ClipBuy that never clips
ClipBuyNever(price, number, total_money) ==
    [asset_value |-> RMul(price, number), number |-> number]

\* handle_choice, Buy branch: the order clipped to the money at hand
ClipBuy(price, number, total_money) ==
    IF RGt(RMul(price, number), total_money)
    THEN [asset_value |-> total_money, number |-> RDiv(total_money, price)]
    ELSE [asset_value |-> RMul(price, number), number |-> number]

\* handle_choice, Sell branch: the order clipped to the shares held
ClipSell(price, number, total_number) ==
    IF RGt(number, total_number)
    THEN [asset_value |-> RMul(price, total_number), number |-> total_number]
    ELSE [asset_value |-> RMul(price, number), number |-> number]

\* a NoShares that lets an order of no shares through
NoSharesIgnored(number) == FALSE

\* handle_choice: an order of no shares is dropped
NoShares(number) == number = Zero

\* a TotalCost that charges the tax on a purchase too
TotalCostTaxOnBuy(cfg, choice, asset_value) ==
    RAdd(RMax(RMul(asset_value, cfg.commission_rate), cfg.min_commission),
         RMul(asset_value, cfg.tax_rate))

\* handle_choice: commission, and the tax of a sale
TotalCost(cfg, choice, asset_value) ==
    LET comm == RMax(RMul(asset_value, cfg.commission_rate), cfg.min_commission)
        tax == RMul(asset_value, cfg.tax_rate)
    IN  IF choice = Buy THEN comm
        ELSE IF choice = Sell THEN RAdd(comm, tax)
        ELSE Zero

\* a SlippageCost that keeps the sign of the price difference
SlippageCostSigned(price, raw_price, number) == RMul(RSub(price, raw_price), number)

\* handle_choice: the slippage cost of the record
SlippageCost(price, raw_price, number) == RMul(RAbs(RSub(price, raw_price)), number)

NoTrade == [value |-> Zero, number |-> Zero, recs |-> <<>>]

\* handle_choice, "Append record": the record of the trade and the values
\* handle_choice returns with it
Trade(date_time, ticket, choice, raw_price, price, clip, total_cost) ==
    [value |-> RSub(IF choice = Buy THEN RNeg(clip.asset_value) ELSE clip.asset_value,
                    total_cost),
     number |-> IF choice = Buy THEN clip.number ELSE RNeg(clip.number),
     recs |-> <<[time |-> date_time,
                 price |-> raw_price,
                 execution_price |-> price,
                 stock_info |-> ticket,
                 choice |-> choice,
                 number |-> clip.number,
                 money_value |-> clip.asset_value,
                 delta_money_value |->
                     RSub(IF choice = Buy THEN RNeg(clip.asset_value) ELSE clip.asset_value,
                          total_cost),
                 delta_number |-> IF choice = Buy THEN clip.number ELSE RNeg(clip.number),
                 cost |-> total_cost,
                 slippage_cost |-> SlippageCost(price, raw_price, clip.number)]>>]

\* handle_choice, from the clipped order on
HandleClipped(cfg, date_time, ticket, choice, raw_price, price, clip) ==
    IF NoShares(clip.number) THEN NoTrade
    ELSE Trade(date_time, ticket, choice, raw_price, price, clip,
               TotalCost(cfg, choice, clip.asset_value))

\* handle_choice, from the slipped price on
HandleSlipped(cfg, date_time, ticket, choice, number, total_money, total_number, raw_price, price) ==
    HandleClipped(cfg, date_time, ticket, choice, raw_price, price,
                  IF choice = Buy THEN ClipBuy(price, number, total_money)
                  ELSE ClipSell(price, number, total_number))

\* handle_choice, from the raw price on
HandlePriced(cfg, date_time, ticket, choice, number, total_money, total_number, raw_price) ==
    IF IsNone(raw_price) THEN NoTrade
    ELSE HandleSlipped(cfg, date_time, ticket, choice, number, total_money, total_number,
                       raw_price, SlippedPrice(cfg, choice, raw_price))

\* investment_record.handle_choice: the change of money and of shares it
\* returns, and the record it appends (recs is empty or holds one record)
InvestmentHandleChoice(cfg, date_time, ticket, info, choice, number, total_money, total_number, force_price) ==
    IF choice = DoNothing THEN NoTrade
    ELSE HandlePriced(cfg, date_time, ticket, choice, number, total_money, total_number,
                      IF ~IsNone(force_price) THEN force_price
                      ELSE extract_close_price(info, date_time))

(***************************** statistics *********************************)
\* float("nan") and float("-inf"), which a division by a running maximum
\* of 0 gives
NaN == None
NegInf == [n |-> -1, d |-> 0]

\* get_records has not been called
NotReturned == [called |-> FALSE, copy |-> <<>>]

\* investment_record.get_records: self.records.copy()
get_records(recs) == [called |-> TRUE, copy |-> recs]

\* get_statistics returns {}
NoStatistics == [has |-> FALSE, final_equity |-> None, max_drawdown |-> None, trades |-> 0]

\* df.set_index("time"); df.sort_index() of snapshots of different times
RECURSIVE SortByTime(_)
SortByTime(df) ==
    IF df = <<>> THEN <<>>
    ELSE <<CHOOSE row \in {df[i] : i \in 1..Len(df)} :
              \A i \in 1..Len(df) : row.time <= df[i].time>>
         \o SortByTime(SelectSeq(df, LAMBDA row :
                           \E i \in 1..Len(df) : df[i].time < row.time))

\* df["equity"].cummax(), up to row i
RECURSIVE CumMax(_, _)
CumMax(df, i) ==
    IF i = 1 THEN df[1].equity ELSE RMax(CumMax(df, i - 1), df[i].equity)

\* a drawdown relative to the equity of the row
DrawdownOfEquity(equity, rolling_max) ==
    IF equity = Zero THEN NaN ELSE RDiv(RSub(equity, rolling_max), equity)

\* (df["equity"] - rolling_max) / rolling_max, at row i
DrawdownOf(equity, rolling_max) ==
    IF rolling_max = Zero
    THEN IF equity = Zero THEN NaN ELSE NegInf
    ELSE RDiv(RSub(equity, rolling_max), rolling_max)

DrawdownAt(df, i) == DrawdownOf(df[i].equity, CumMax(df, i))

\* min of two values of a series, NaN skipped
SkipNaMin(x, y) ==
    IF x = NaN THEN y
    ELSE IF y = NaN THEN x
    ELSE IF x = NegInf \/ y = NegInf THEN NegInf
    ELSE IF RLt(y, x) THEN y ELSE x

\* drawdown.min(), over the rows up to i
RECURSIVE DrawdownMin(_, _)
DrawdownMin(df, i) ==
    IF i = 1 THEN DrawdownAt(df, 1)
    ELSE SkipNaMin(DrawdownMin(df, i - 1), DrawdownAt(df, i))

\* get_statistics on the sorted frame
StatisticsOf(df, recs) ==
    [has |-> TRUE,
     final_equity |-> df[Len(df)].equity,
     max_drawdown |-> DrawdownMin(df, Len(df)),
     trades |-> Len(recs)]

\* investment_record.get_statistics: the final equity, the maximum drawdown
\* and the number of trades of the result
get_statistics(equities, recs) ==
    IF equities = <<>> THEN NoStatistics
    ELSE StatisticsOf(SortByTime(equities), recs)

(**************************** strategy_base *******************************)
\* dict.get(key, 0)
Get(dict, key) == IF key \in DOMAIN dict THEN dict[key] ELSE Zero

\* dict[key] = value
Put(dict, key, value) ==
    [k \in DOMAIN dict \cup {key} |-> IF k = key THEN value ELSE dict[k]]

\* _execute_trade: the shares that are not frozen
Available(hold, frozen, ticket) == RSub(Get(hold, ticket), Get(frozen, ticket))

\* _execute_trade, T+1 validation of a sale: the amount still to execute,
\* None when the trade is skipped
SettlementCheck(cfg, hold, frozen, ticket, action, amount) ==
    IF action = Sell /\ cfg.settlement = T1 /\ RGt(amount, Available(hold, frozen, ticket))
    THEN IF RLe(Available(hold, frozen, ticket), Zero) THEN None
         ELSE Available(hold, frozen, ticket)
    ELSE amount

\* a LiquidityCap that caps nothing
LiquidityCapNone(cfg, info, t, amount) == amount

\* _execute_trade, liquidity validation
LiquidityCap(cfg, info, t, amount) ==
    IF RLt(cfg.volume_limit_pct, One)
    THEN LET daily_vol == extract_volume(info, t)
             max_shares == RMul(daily_vol, cfg.volume_limit_pct)
         IN  IF RGt(daily_vol, Zero) /\ RGt(amount, max_shares) THEN max_shares ELSE amount
    ELSE amount

\* a FreezeBought that freezes nothing
FreezeBoughtNever(cfg, frozen, ticket, action, changed_number) == frozen

\* _execute_trade, T+1 logic: the frozen shares after a trade of changed_number
FreezeBought(cfg, frozen, ticket, action, changed_number) ==
    IF action = Buy /\ cfg.settlement = T1
    THEN Put(frozen, ticket, RAdd(Get(frozen, ticket), changed_number))
    ELSE frozen

\* the ledger of a strategy, as _execute_trade reads and writes it
Ledger == [changed_money |-> changed_money, hold_stock_number |-> hold_stock_number,
           frozen_stock |-> frozen_stock, records |-> records, fills |-> fills]

\* a Book that adds the shares of a sale to the holding
BookShares(led, ticket, action, amount, capped, r) ==
    [changed_money |-> RAdd(led.changed_money, r.value),
     hold_stock_number |->
         IF action # DoNothing
         THEN Put(led.hold_stock_number, ticket,
                  RAdd(led.hold_stock_number[ticket], RAbs(r.number)))
         ELSE led.hold_stock_number,
     frozen_stock |->
         IF action # DoNothing
         THEN FreezeBought(market_config, led.frozen_stock, ticket, action, r.number)
         ELSE led.frozen_stock,
     records |-> led.records \o r.recs,
     fills |-> IF r.recs = <<>> THEN led.fills
               ELSE Append(led.fills,
                           [requested |-> amount,
                            capped |-> capped,
                            money_before |-> RAdd(initial_money, led.changed_money),
                            money_after |->
                                RAdd(initial_money, RAdd(led.changed_money, r.value)),
                            hold_before |-> led.hold_stock_number[ticket],
                            hold_after |-> RAdd(led.hold_stock_number[ticket], r.number),
                            frozen_before |-> Get(led.frozen_stock, ticket)])]

\* _execute_trade, after the call of handle_choice: the result r is booked
Book(led, ticket, action, amount, capped, r) ==
    [changed_money |-> RAdd(led.changed_money, r.value),
     hold_stock_number |->
         IF action # DoNothing
         THEN Put(led.hold_stock_number, ticket,
                  RAdd(led.hold_stock_number[ticket], r.number))
         ELSE led.hold_stock_number,
     frozen_stock |->
         IF action # DoNothing
         THEN FreezeBought(market_config, led.frozen_stock, ticket, action, r.number)
         ELSE led.frozen_stock,
     records |-> led.records \o r.recs,
     fills |-> IF r.recs = <<>> THEN led.fills
               ELSE Append(led.fills,
                           [requested |-> amount,
                            capped |-> capped,
                            money_before |-> RAdd(initial_money, led.changed_money),
                            money_after |->
                                RAdd(initial_money, RAdd(led.changed_money, r.value)),
                            hold_before |-> led.hold_stock_number[ticket],
                            hold_after |-> RAdd(led.hold_stock_number[ticket], r.number),
                            frozen_before |-> Get(led.frozen_stock, ticket)])]

\* _execute_trade, from the call of handle_choice on
ExecuteCapped(led, ticket, action, amount, capped, execution_price) ==
    Book(led, ticket, action, amount, capped,
         InvestmentHandleChoice(market_config, today_time, ticket, stocks_info[ticket],
                                action, capped, RAdd(initial_money, led.changed_money),
                                led.hold_stock_number[ticket], execution_price))

\* _execute_trade, from the liquidity validation on; checked is the amount
\* the T+1 validation leaves
ExecuteChecked(led, ticket, action, amount, checked, execution_price) ==
    IF IsNone(checked) THEN led
    ELSE ExecuteCapped(led, ticket, action, amount,
                       LiquidityCap(market_config, stocks_info[ticket], today_time, checked),
                       execution_price)

\* strategy_base._execute_trade
ExecuteTrade(led, ticket, action, amount, execution_price) ==
    ExecuteChecked(led, ticket, action, amount,
                   SettlementCheck(market_config, led.hold_stock_number, led.frozen_stock,
                                   ticket, action, amount),
                   execution_price)

\* the ledger _execute_trade leaves is the ledger of the next state
SetLedger(led) ==
    /\ changed_money' = led.changed_money
    /\ hold_stock_number' = led.hold_stock_number
    /\ frozen_stock' = led.frozen_stock
    /\ records' = led.records
    /\ fills' = led.fills

\* a do_promise_or_not that wants the price strictly beyond the promised one
do_promise_or_not_strict(promise, current_datetime) ==
    IF current_datetime > promise.promise_datetime THEN TRUE
    ELSE LET today_price == extract_close_price(stocks_info[promise.ticket_name],
                                                current_datetime)
         IN  IF IsNone(today_price) THEN FALSE
             ELSE IF promise.kind = Buy THEN RLt(today_price, promise.promise_price)
             ELSE RGt(today_price, promise.promise_price)

\* a do_promise_or_not that never looks at the promised date
do_promise_or_not_undated(promise, current_datetime) ==
    LET today_price == extract_close_price(stocks_info[promise.ticket_name],
                                           current_datetime)
    IN  IF IsNone(today_price) THEN FALSE
        ELSE IF promise.kind = Buy THEN RLe(today_price, promise.promise_price)
        ELSE RGe(today_price, promise.promise_price)

\* promise_buy.do_promise_or_not / promise_sell.do_promise_or_not:
\* whether the promise is to be done now
do_promise_or_not(promise, current_datetime) ==
    IF current_datetime > promise.promise_datetime THEN TRUE
    ELSE LET today_price == extract_close_price(stocks_info[promise.ticket_name],
                                                current_datetime)
         IN  IF IsNone(today_price) THEN FALSE
             ELSE IF promise.kind = Buy THEN RLe(today_price, promise.promise_price)
             ELSE RGe(today_price, promise.promise_price)

\* strategy_base.new_promise; id stands for the identity of the object
new_promise(ps, p, id) ==
    Append(ps, [id |-> id, kind |-> p.kind, promise_price |-> p.promise_price,
                promise_datetime |-> p.promise_datetime, ticket_name |-> p.ticket_name,
                number |-> p.number])

\* the calls of new_promise a strategy makes while it decides, in order
RECURSIVE NewPromises(_, _, _)
NewPromises(ps, new, id) ==
    IF new = <<>> THEN ps
    ELSE NewPromises(new_promise(ps, Head(new), id), Tail(new), id + 1)

\* strategy_base.handle_promises: promised_list, the promises done now ...
PromisedList(ps, t) == SelectSeq(ps, LAMBDA p : do_promise_or_not(p, t))

\* choices of the promises done now, the last promise first
PromisedChoicesReversed(ps, t) ==
    [i \in 1..Len(PromisedList(ps, t)) |->
        [ticket |-> PromisedList(ps, t)[Len(PromisedList(ps, t)) + 1 - i].ticket_name,
         action |-> PromisedList(ps, t)[Len(PromisedList(ps, t)) + 1 - i].kind,
         amount |-> PromisedList(ps, t)[Len(PromisedList(ps, t)) + 1 - i].number]]

\* ... the choices of the promises done now ...
PromisedChoices(ps, t) ==
    [i \in 1..Len(PromisedList(ps, t)) |->
        [ticket |-> PromisedList(ps, t)[i].ticket_name,
         action |-> PromisedList(ps, t)[i].kind,
         amount |-> PromisedList(ps, t)[i].number]]

\* a PromisesLeft that takes no promise from the list
PromisesKept(ps, t) == ps

\* ... and the promises that stay
PromisesLeft(ps, t) == SelectSeq(ps, LAMBDA p : ~do_promise_or_not(p, t))

(********************* stock_info: cache and fetch ************************)
\* the range a stock_info asks for: from a year before the start of the
\* kernel, day 1, to its end
StoreStart == 1 - LookbackDays
StoreEnd == MaxDay

\* the dates of the rows of caches and sources: around both ends of the range
StoreDates ==
    {StoreStart - 1, StoreStart, StoreEnd - SlackDays - 1, StoreEnd - SlackDays,
     StoreEnd, StoreEnd + 1}

RECURSIVE AscendingDates(_)
AscendingDates(dates) ==
    IF dates = {} THEN <<>>
    ELSE LET first == CHOOSE d \in dates : \A e \in dates : d <= e
         IN  <<first>> \o AscendingDates(dates \ {first})

\* a frame with one row per date, in ascending order; from tells a row of
\* the cache from a row of the source
FrameOf(dates, from) ==
    [i \in 1..Cardinality(dates) |-> [date |-> AscendingDates(dates)[i], from |-> from]]

\* the file at the cache path: none, an unreadable one, or the pickled
\* tuple (raw_data, history_price_data) that __update_cache writes
NoCacheFile == [kind |-> "none", raw_data |-> <<>>, history_price_data |-> <<>>]
CorruptCacheFile == [kind |-> "corrupt", raw_data |-> <<>>, history_price_data |-> <<>>]
CacheFile(raw, price) == [kind |-> "tuple", raw_data |-> raw, history_price_data |-> price]
CacheFiles ==
    {NoCacheFile, CorruptCacheFile}
    \cup {CacheFile(FrameOf(dates, "cache"), FrameOf(dates, "cache")) :
              dates \in (SUBSET StoreDates) \ {{}}}

\* the dates of the rows that akshare gives
AkDates == {StoreStart, StoreEnd - SlackDays - 1, StoreEnd}

\* the data source of a stock_info, "yahoo" or "akshare": the fetch fails,
\* or it gives a frame (an empty one too); akshare may not be installed,
\* and then nothing is fetched
Sources ==
    {[source |-> src, installed |-> TRUE, ok |-> FALSE, frame |-> <<>>] :
         src \in {"yahoo", "akshare"}}
    \cup {[source |-> "yahoo", installed |-> TRUE, ok |-> TRUE,
           frame |-> FrameOf(dates, "source")] : dates \in SUBSET StoreDates}
    \cup {[source |-> "akshare", installed |-> TRUE, ok |-> TRUE,
           frame |-> FrameOf(dates, "source")] : dates \in SUBSET AkDates}
    \cup {[source |-> "akshare", installed |-> FALSE, ok |-> FALSE, frame |-> <<>>]}

\* frame[~frame.index.duplicated(keep="last")]
RECURSIVE KeepLast(_)
KeepLast(frame) ==
    IF frame = <<>> THEN <<>>
    ELSE IF \E j \in 2..Len(frame) : frame[j].date = frame[1].date
         THEN KeepLast(Tail(frame))
         ELSE <<frame[1]>> \o KeepLast(Tail(frame))

\* a merge in which the row of the cache stays on a date both have
MergeFramesCacheFirst(existing, new) == sort_index(KeepLast(new \o existing))

\* __update_cache: pd.concat, drop the duplicated dates, sort
MergeFrames(existing, new) == sort_index(KeepLast(existing \o new))

\* __update_cache: history_price_data merged with the frame of the same
\* kind in the cache file; its index is the date
MergedWith(existing, frame) ==
    IF frame # <<>>
    THEN IF existing # <<>> THEN MergeFrames(existing, frame) ELSE frame
    ELSE existing

\* __update_cache on two frames of akshare, whose index is the number of
\* the row, from 0 on: of two rows with one number the second frame's stays
MergeRows(existing, new) ==
    [i \in 1..(IF Len(new) > Len(existing) THEN Len(new) ELSE Len(existing)) |->
        IF i <= Len(new) THEN new[i] ELSE existing[i]]

\* __update_cache: raw_data merged with the raw_data of the cache file, by
\* the index that the source gives it
MergedRaw(source, existing, frame) ==
    IF frame # <<>>
    THEN IF existing # <<>>
         THEN IF source.source = "akshare" THEN MergeRows(existing, frame)
              ELSE MergeFrames(existing, frame)
         ELSE frame
    ELSE existing

\* __update_cache: the file after the merge
CacheWritten(cache, raw, price) == IF price # <<>> THEN CacheFile(raw, price) ELSE cache

\* __normalize_data: history_price_data of raw_data, left as it is when
\* raw_data is empty
normalize_data(raw, price) == IF raw = <<>> THEN price ELSE sort_index(raw)

\* __update_from_yahoo / __update_from_akshare: raw_data after the fetch; a
\* failed fetch is caught and leaves an empty raw_data, and without akshare
\* raw_data stays as it is
Fetched(st, source) ==
    IF ~source.installed THEN st.raw_data
    ELSE IF source.ok THEN source.frame
    ELSE <<>>

\* update, from __update_cache on; an unreadable file counts as no file
UpdateCache(st, source, raw, price) ==
    [cache |-> CacheWritten(st.cache, MergedRaw(source, st.cache.raw_data, raw),
                            MergedWith(st.cache.history_price_data, price)),
     raw_data |-> MergedRaw(source, st.cache.raw_data, raw),
     history_price_data |-> MergedWith(st.cache.history_price_data, price),
     fetches |-> st.fetches + 1]

\* stock_info.update: fetch, normalize, merge into the cache
Update(st, source) ==
    UpdateCache(st, source, Fetched(st, source),
                normalize_data(Fetched(st, source), st.history_price_data))

\* __load_cache: the tuple of the file, or update when the file is unreadable
LoadCache(st, source) ==
    IF st.cache.kind = "tuple"
    THEN [st EXCEPT !.raw_data = st.cache.raw_data,
                    !.history_price_data = st.cache.history_price_data]
    ELSE Update(st, source)

\* initialize, "Check Coverage"
CoverageComplete(price) ==
    /\ price # <<>>
    /\ MinDate(price) <= StoreStart
    /\ MaxDate(price) >= StoreEnd - SlackDays

\* initialize, the slice to the range asked for
Slice(price) == SelectSeq(price, LAMBDA row : row.date >= StoreStart /\ row.date <= StoreEnd)

\* initialize, after the cache has been looked at
InitializeLoaded(loaded, has_cache, source) ==
    IF has_cache /\ CoverageComplete(loaded.history_price_data)
    THEN loaded
    ELSE Update(loaded, source)

\* initialize, the last step
Sliced(st) == [st EXCEPT !.history_price_data = Slice(st.history_price_data)]

\* stock_info.initialize
Initialize(st, source) ==
    Sliced(InitializeLoaded(IF st.cache.kind # "none" THEN LoadCache(st, source) ELSE st,
                            st.cache.kind # "none", source))

\* the stock_info of the state
Store == [cache |-> store_cache, raw_data |-> store_raw_data,
          history_price_data |-> store_price_data, fetches |-> store_fetches]

(********************* TimeRangedDataSourceBase ***************************)
\* the file at the cache path of a data source: none, in a directory
\* cache_dir that exists or does not, an unreadable one, or the pickled
\* frame that _update_cache writes
DsNoFile == [kind |-> "none", data |-> <<>>]
DsNoDirectory == [kind |-> "no_directory", data |-> <<>>]
DsCorruptFile == [kind |-> "corrupt", data |-> <<>>]
DsFile(data) == [kind |-> "frame", data |-> data]

\* the frames in the file of a data source: an empty one, one that covers
\* the range and one that ends before the slack
DsFrames ==
    {<<>>, FrameOf({StoreStart, StoreEnd}, "cache"),
     FrameOf({StoreStart, StoreEnd - SlackDays - 1}, "cache")}

\* the files a data source may find where a stock_info finds cache: the
\* paths differ, the directory of both is "cache", and without it neither
\* has a file
DsFilesOf(cache) ==
    {DsNoFile, DsCorruptFile} \cup {DsFile(frame) : frame \in DsFrames}
    \cup (IF cache.kind = "none" THEN {DsNoDirectory} ELSE {})

\* what _load_data has raised: nothing, the exception of _download_data,
\* the one of pd.to_pickle in _update_cache, or the TypeError of
\* _get_data_range
NotRaised == "initialized"
RaisedByDownload == "raised"
RaisedByUpdateCache == "raised_by_update_cache"
RaisedByGetDataRange == "raised_by_get_data_range"

\* a data source with its file and its data, at the call of initialize
DsCalled(file, data) == [cache |-> file, data |-> data, raised |-> NotRaised]

\* _download_data of YahooQueryDataSource and of AKShareDataSource: data
\* is the frame fetched; when the fetch raises, data is set to an empty
\* frame and the exception is raised again; AKShareDataSource without
\* akshare returns at once, without an exception, and leaves data as it is
download_data(ds, source) ==
    IF ~source.installed THEN ds
    ELSE IF source.ok THEN [ds EXCEPT !.data = source.frame]
    ELSE [ds EXCEPT !.data = <<>>, !.raised = RaisedByDownload]

\* _update_cache: pd.to_pickle(self.data, path), which raises when the
\* directory of the file does not exist
update_cache(ds) ==
    IF ds.cache = DsNoDirectory THEN [ds EXCEPT !.raised = RaisedByUpdateCache]
    ELSE [ds EXCEPT !.cache = DsFile(ds.data)]

\* _load_data: try _download_data, raise its exception again, else
\* _update_cache
Downloaded(ds, source) ==
    IF download_data(ds, source).raised # NotRaised THEN download_data(ds, source)
    ELSE update_cache(download_data(ds, source))

\* the exception of _get_data_range
TypeError == [raised |-> "TypeError"]

\* (None, None)
NoRange == [dates |-> "None"]

\* _get_data_range of the subclass: (None, None) of an empty frame, else
\* the least and the greatest date of the index.  YahooQueryDataSource
\* takes them from an index of (symbol, date); AKShareDataSource unpacks
\* index.min() in the same way, but the frame of akshare has the index
\* 0, 1, ... and its dates in a column, and unpacking an integer raises
\* TypeError
get_data_range(source, data) ==
    IF data = <<>> THEN NoRange
    ELSE IF source.source = "akshare" THEN TypeError
    ELSE [min_date |-> MinDate(data), max_date |-> MaxDate(data)]

\* _load_data: range_complete, of the range _get_data_range has returned
RangeComplete(range) ==
    /\ range # NoRange
    /\ range.min_date <= StoreStart
    /\ range.max_date >= StoreEnd - SlackDays

\* _load_data, after the file has been looked at: the TypeError of
\* _get_data_range leaves _load_data, outside every try
LoadChecked(ds, source) ==
    IF ds.raised # NotRaised THEN ds
    ELSE IF get_data_range(source, ds.data) = TypeError
    THEN [ds EXCEPT !.raised = RaisedByGetDataRange]
    ELSE IF RangeComplete(get_data_range(source, ds.data)) THEN ds
    ELSE Downloaded(ds, source)

\* TimeRangedDataSourceBase._load_data
LoadData(ds, source) ==
    IF ds.cache \in {DsNoFile, DsNoDirectory} THEN Downloaded(ds, source)
    ELSE LoadChecked(IF ds.cache.kind = "frame" THEN [ds EXCEPT !.data = ds.cache.data]
                     ELSE Downloaded(ds, source),
                     source)

(******************************* actions **********************************)
\* run: the condition of the loop, __current_time__ <= __end_time__
KeepRunning(t) == t <= MaxDay

\* strategy_base.__init__ and simulation_kernel.__init__: everything but the
\* arguments
\* MarketConfig.CN_Market(), with either execution mode
CN_Market(execution_mode) ==
    [commission_rate |-> R(25, 100000),
     min_commission |-> RInt(5),
     tax_rate |-> R(5, 10000),
     settlement |-> T1,
     slippage_rate |-> R(1, 1000),
     volume_limit_pct |-> R(1, 10),
     execution_mode |-> execution_mode]

\* MarketConfig.US_Market()
US_Market ==
    [commission_rate |-> R(25, 100000),
     min_commission |-> RInt(5),
     tax_rate |-> Zero,
     settlement |-> T0,
     slippage_rate |-> R(5, 10000),
     volume_limit_pct |-> R(1, 10),
     execution_mode |-> CLOSE_TO_CLOSE]

\* the module strategy has been loaded: the default value of the parameter
\* market_config of strategy_base.__init__ has been evaluated, once, and no
\* strategy has been constructed
ModuleLoaded ==
    /\ config_objects = <<US_Market>>
    /\ strategies = <<>>

\* a strategy that has been constructed and added to a kernel
Constructed ==
    /\ ModuleLoaded
    /\ current_time = 1
    /\ changed_money = Zero
    /\ hold_stock_number = <<>>
    /\ frozen_stock = <<>>
    /\ queued_orders = <<>>
    /\ promises = <<>>
    /\ initialized = FALSE
    /\ today_time = 0
    /\ records = <<>>
    /\ daily_equity = <<>>
    /\ pc = "run"
    /\ queued_to_process = <<>>
    /\ choice_list = <<>>
    /\ orders_made = 0
    /\ fills = <<>>
    /\ promised = <<>>
    /\ history = [k \in Tickets |-> Frame(<<>>)]
    /\ statistics = NoStatistics
    /\ returned_records = NotReturned

\* the kernel and the strategy after construction
EngineInit ==
    /\ stock_names = StockNames
    /\ interval \in IntervalSet
    /\ stocks_info \in [Tickets -> StockInfos]
    /\ market_config \in MarketConfigs
    /\ initial_money \in InitialMoneySet
    /\ Constructed

\* the store while the kernel runs: initialize has been left and the store
\* is read through stocks_info alone
StoreRunning ==
    /\ store_cache = NoCacheFile
    /\ store_source = [ok |-> FALSE, frame |-> <<>>]
    /\ store_raw_data = <<>>
    /\ store_price_data = <<>>
    /\ store_fetches = 0
    /\ store_inits = <<>>
    /\ store_updates = 0
    /\ store_phase = "running"
    /\ ds_cache = DsNoFile
    /\ ds_data = <<>>
    /\ ds_phase = "created"

Init == EngineInit /\ StoreRunning

\* do_promise_or_not raises: the promise is not past its date and the
\* lookup of today's close raises
PromiseRaises(promise, current_datetime) ==
    /\ current_datetime <= promise.promise_datetime
    /\ extract_close_price(stocks_info[promise.ticket_name], current_datetime) = KeyError

\* _execute_trade raises: the trade is not skipped by the T+1 validation,
\* and the lookup of the volume, made under a volume limit, or the lookup
\* of the close price in investment_record.handle_choice, made when no
\* execution price is given and the choice is not DoNothing, raises
TradeRaises(led, ticket, action, amount, execution_price) ==
    /\ ~IsNone(SettlementCheck(market_config, led.hold_stock_number, led.frozen_stock,
                               ticket, action, amount))
    /\ \/ /\ RLt(market_config.volume_limit_pct, One)
          /\ extract_volume(stocks_info[ticket], today_time) = KeyError
       \/ /\ action # DoNothing
          /\ IsNone(execution_price)
          /\ extract_close_price(stocks_info[ticket], today_time) = KeyError

\* tick, "Track Daily Equity" raises: the loop over stock_names comes to a
\* stock whose lookup raises before one without a price ends it
EquityRaises ==
    \E i \in 1..Len(stock_names) :
        /\ extract_close_price(stocks_info[stock_names[i]], today_time) = KeyError
        /\ \A j \in 1..(i - 1) :
              /\ extract_close_price(stocks_info[stock_names[j]], today_time) # KeyError
              /\ ~IsNone(extract_close_price(stocks_info[stock_names[j]], today_time))

\* the next statement of tick raises KeyError: the lookup of the open price
\* of a queued order, the reading of the history of a stock in make_choice,
\* the evaluation of a promise, the execution of a choice or the snapshot
\* of the equity reads a frame that was never filled.  Nothing catches the
\* exception, neither in tick nor in run: where LookupRaises holds the run
\* is over, and no step of tick or of run follows
LookupRaises ==
    CASE pc = "queued" /\ queued_to_process # <<>> ->
             extract_open_price(stocks_info[Head(queued_to_process).ticket],
                                today_time) = KeyError
      [] pc = "queued" /\ queued_to_process = <<>> ->
             \E k \in Tickets : get_history_price(stocks_info[k], today_time) = KeyError
      [] pc = "decided" ->
             \E i \in 1..Len(promises) : PromiseRaises(promises[i], today_time)
      [] pc = "choices" /\ choice_list # <<>> ->
             /\ market_config.execution_mode # NEXT_OPEN
             /\ TradeRaises(Ledger, Head(choice_list).ticket, Head(choice_list).action,
                            Head(choice_list).amount, None)
      [] pc = "choices" /\ choice_list = <<>> -> EquityRaises
      [] OTHER -> FALSE

\* tick, first part: the dictionaries are filled on the first tick, the
\* frozen shares are released under T+1 and the queue is taken over
TickBegin ==
    /\ pc = "run"
    /\ KeepRunning(current_time)
    /\ hold_stock_number' =
          IF initialized THEN hold_stock_number ELSE [k \in Tickets |-> Zero]
    /\ frozen_stock' =
          IF ~initialized \/ market_config.settlement = T1
          THEN [k \in Tickets |-> Zero]
          ELSE frozen_stock
    /\ initialized' = TRUE
    /\ today_time' = current_time
    /\ queued_to_process' = queued_orders
    /\ queued_orders' = <<>>
    /\ pc' = "queued"
    /\ UNCHANGED <<stock_names, interval, stocks_info, current_time, market_config, initial_money, changed_money,
                   promises, records, daily_equity, choice_list, orders_made, fills, promised, history>>
    /\ UNCHANGED <<store_vars, report_vars, config_vars>>

\* an ExecQueued that keeps an order without an open price for the next tick
ExecQueuedRetry ==
    /\ pc = "queued"
    /\ queued_to_process # <<>>
    /\ ~LookupRaises
    /\ SetLedger(IF ~IsNone(extract_open_price(stocks_info[Head(queued_to_process).ticket],
                                               today_time))
                 THEN ExecuteTrade(Ledger, Head(queued_to_process).ticket,
                                   Head(queued_to_process).action,
                                   Head(queued_to_process).amount,
                                   extract_open_price(
                                       stocks_info[Head(queued_to_process).ticket],
                                       today_time))
                 ELSE Ledger)
    /\ queued_to_process' = Tail(queued_to_process)
    /\ queued_orders' =
          IF IsNone(extract_open_price(stocks_info[Head(queued_to_process).ticket],
                                       today_time))
          THEN Append(queued_orders, Head(queued_to_process))
          ELSE queued_orders
    /\ UNCHANGED <<stock_names, interval, stocks_info, current_time, market_config, initial_money,
                   promises, initialized, today_time, daily_equity, pc, choice_list,
                   orders_made, promised, history>>
    /\ UNCHANGED <<store_vars, report_vars, config_vars>>

\* tick, the loop over queued_to_process: one queued order is executed at
\* today's open price, or skipped when there is none
ExecQueued ==
    /\ pc = "queued"
    /\ queued_to_process # <<>>
    /\ ~LookupRaises
    /\ SetLedger(IF ~IsNone(extract_open_price(stocks_info[Head(queued_to_process).ticket],
                                               today_time))
                 THEN ExecuteTrade(Ledger, Head(queued_to_process).ticket,
                                   Head(queued_to_process).action,
                                   Head(queued_to_process).amount,
                                   extract_open_price(
                                       stocks_info[Head(queued_to_process).ticket],
                                       today_time))
                 ELSE Ledger)
    /\ queued_to_process' = Tail(queued_to_process)
    /\ UNCHANGED <<stock_names, interval, stocks_info, current_time, market_config, initial_money, queued_orders,
                   promises, initialized, today_time, daily_equity, pc, choice_list,
                   orders_made, promised, history>>
    /\ UNCHANGED <<store_vars, report_vars, config_vars>>

\* tick: choice_list = make_choice().  The strategy is free in the choices
\* it returns, taken from intents, and may create promises, taken from
\* promise_set, while it decides
MakeChoiceOf(intents, promise_set) ==
    /\ pc = "queued"
    /\ queued_to_process = <<>>
    /\ ~LookupRaises
    /\ \E new \in SeqsUpTo(promise_set, MaxOrders - orders_made) :
       \E made \in SeqsUpTo(intents, MaxOrders - orders_made - Len(new)) :
          /\ orders_made' = orders_made + Len(made) + Len(new)
          /\ choice_list' = made
          /\ promises' = NewPromises(promises, new, Len(promises) + Len(promised) + 1)
    /\ history' = [k \in Tickets |-> get_history_price(stocks_info[k], today_time)]
    /\ pc' = "decided"
    /\ UNCHANGED <<stock_names, interval, stocks_info, current_time, market_config, initial_money, changed_money,
                   hold_stock_number, frozen_stock, queued_orders, initialized, today_time,
                   records, daily_equity, queued_to_process, fills, promised>>
    /\ UNCHANGED <<store_vars, report_vars, config_vars>>

MakeChoice == MakeChoiceOf(Intents, PromiseSet)

\* tick: choice_list += handle_promises()
HandlePromises ==
    /\ pc = "decided"
    /\ ~LookupRaises
    /\ choice_list' = choice_list \o PromisedChoices(promises, today_time)
    /\ promised' = promised \o [i \in 1..Len(PromisedList(promises, today_time)) |->
                                   PromisedList(promises, today_time)[i].id]
    /\ promises' = PromisesLeft(promises, today_time)
    /\ pc' = "choices"
    /\ UNCHANGED <<stock_names, interval, stocks_info, current_time, market_config, initial_money, changed_money,
                   hold_stock_number, frozen_stock, queued_orders, initialized, today_time,
                   records, daily_equity, queued_to_process, orders_made, fills, history>>
    /\ UNCHANGED <<store_vars, report_vars, config_vars>>

\* tick, the loop over choice_list: strategy_base.handle_choice of one choice
HandleChoice ==
    /\ pc = "choices"
    /\ choice_list # <<>>
    /\ ~LookupRaises
    /\ IF market_config.execution_mode = NEXT_OPEN
       THEN /\ queued_orders' = Append(queued_orders, Head(choice_list))
            /\ UNCHANGED <<changed_money, hold_stock_number, frozen_stock, records, fills>>
       ELSE /\ SetLedger(ExecuteTrade(Ledger, Head(choice_list).ticket,
                                      Head(choice_list).action, Head(choice_list).amount,
                                      None))
            /\ UNCHANGED queued_orders
    /\ choice_list' = Tail(choice_list)
    /\ UNCHANGED <<stock_names, interval, stocks_info, current_time, market_config, initial_money, promises,
                   initialized, today_time, daily_equity, pc, queued_to_process,
                   orders_made, promised, history>>
    /\ UNCHANGED <<store_vars, report_vars, config_vars>>

\* tick, "Track Daily Equity": the equity of today, None on a day on which
\* a stock of the strategy has no price
CurrentEquity ==
    LET RECURSIVE Sum(_)
        Sum(i) ==
            IF i = 0 THEN RAdd(initial_money, changed_money)
            ELSE RAdd(Sum(i - 1),
                      RMul(Get(hold_stock_number, stock_names[i]),
                           extract_close_price(stocks_info[stock_names[i]], today_time)))
    IN  IF \E i \in 1..Len(stock_names) :
              IsNone(extract_close_price(stocks_info[stock_names[i]], today_time))
        THEN None
        ELSE Sum(Len(stock_names))

\* a tick that takes the snapshot and ends while choices are left
RecordEquityEarly ==
    /\ pc = "choices"
    /\ ~LookupRaises
    /\ daily_equity' =
          IF IsNone(CurrentEquity) THEN daily_equity
          ELSE Append(daily_equity, [time |-> today_time, equity |-> CurrentEquity])
    /\ current_time' = current_time + interval
    /\ pc' = "run"
    /\ choice_list' = <<>>
    /\ UNCHANGED <<stock_names, interval, stocks_info, market_config, initial_money, changed_money,
                   hold_stock_number, frozen_stock, queued_orders, promises, initialized,
                   today_time, records, queued_to_process, orders_made,
                   fills, promised, history>>
    /\ UNCHANGED <<store_vars, report_vars, config_vars>>

\* tick, last part, and the step of run to the next day
RecordEquity ==
    /\ pc = "choices"
    /\ choice_list = <<>>
    /\ ~LookupRaises
    /\ daily_equity' =
          IF IsNone(CurrentEquity) THEN daily_equity
          ELSE Append(daily_equity, [time |-> today_time, equity |-> CurrentEquity])
    /\ current_time' = current_time + interval
    /\ pc' = "run"
    /\ UNCHANGED <<stock_names, interval, stocks_info, market_config, initial_money, changed_money,
                   hold_stock_number, frozen_stock, queued_orders, promises, initialized,
                   today_time, records, queued_to_process, choice_list, orders_made,
                   fills, promised, history>>
    /\ UNCHANGED <<store_vars, report_vars, config_vars>>

\* run: the loop ends after end_time
RunEnd ==
    /\ pc = "run"
    /\ ~KeepRunning(current_time)
    /\ pc' = "ended"
    /\ UNCHANGED <<stock_names, interval, stocks_info, current_time, market_config, initial_money, changed_money,
                   hold_stock_number, frozen_stock, queued_orders, promises, initialized,
                   today_time, records, daily_equity, queued_to_process, choice_list,
                   orders_made, fills, promised, history>>
    /\ UNCHANGED <<store_vars, report_vars, config_vars>>

\* print_performance_report: stats = get_statistics(initial_money)
GetStatistics ==
    /\ statistics' = get_statistics(daily_equity, records)
    /\ UNCHANGED <<engine_vars, store_vars, returned_records, config_vars>>

\* a call of get_records
GetRecords ==
    /\ returned_records' = get_records(records)
    /\ UNCHANGED <<engine_vars, store_vars, statistics, config_vars>>

\* after the run: the report of the strategy and the reading of its log
EndStatistics == pc = "ended" /\ GetStatistics
EndRecords == pc = "ended" /\ GetRecords

Next ==
    \/ TickBegin \/ ExecQueued \/ MakeChoice \/ HandlePromises
    \/ HandleChoice \/ RecordEquity \/ RunEnd
    \/ EndStatistics \/ EndRecords

Spec == Init /\ [][Next]_vars

(************************ initialization of a store ***********************)
\* a kernel and a strategy that have been constructed and are not run
EngineCreated ==
    /\ EngineInit
    /\ interval = 1
    /\ market_config.execution_mode = CLOSE_TO_CLOSE
    /\ market_config.settlement = T0
    /\ market_config.volume_limit_pct = One
    /\ initial_money = RInt(6)
    /\ \A k \in Tickets : stocks_info[k] = NeverFilled

\* a stock_info that has been constructed, with any cache file and any source
StoreInit ==
    /\ EngineCreated
    /\ store_cache \in CacheFiles
    /\ store_source \in Sources
    /\ store_raw_data = <<>>
    /\ store_price_data = <<>>
    /\ store_fetches = 0
    /\ store_inits = <<>>
    /\ store_updates = 0
    /\ store_phase = "created"
    /\ ds_cache \in DsFilesOf(store_cache)
    /\ ds_data = <<>>
    /\ ds_phase = "created"

\* simulation_kernel.initialize: stock.initialize() of the stock; also a
\* further call of initialize on the same stock_info.  update, when it is
\* called, makes the directory "cache" in __update_cache
StoreInitialize ==
    /\ store_phase \in {"created", "initialized"}
    /\ Len(store_inits) < MaxInits
    /\ \E st \in {Initialize(Store, store_source)} :
          /\ store_cache' = st.cache
          /\ store_raw_data' = st.raw_data
          /\ store_price_data' = st.history_price_data
          /\ store_fetches' = st.fetches
          /\ store_inits' = Append(store_inits, st.history_price_data)
    /\ store_phase' = "initialized"
    /\ ds_cache' = IF ds_cache = DsNoDirectory /\ store_fetches' # store_fetches
                   THEN DsNoFile ELSE ds_cache
    /\ UNCHANGED <<store_source, store_updates, ds_data, ds_phase>>
    /\ UNCHANGED <<engine_vars, report_vars, config_vars>>

\* __collect_strategies_stock_names__ of a new kernel: a new stock_info on
\* the same cache file
StoreConstruct ==
    /\ store_phase = "initialized"
    /\ Len(store_inits) < MaxInits
    /\ store_raw_data' = <<>>
    /\ store_price_data' = <<>>
    /\ store_phase' = "created"
    /\ UNCHANGED <<store_cache, store_source, store_fetches, store_inits, store_updates,
                   ds_vars>>
    /\ UNCHANGED <<engine_vars, report_vars, config_vars>>

\* initialize has returned to its caller, which calls run
KernelRun ==
    /\ store_phase = "initialized"
    /\ store_phase' = "running"
    /\ UNCHANGED <<store_cache, store_source, store_raw_data, store_price_data,
                   store_fetches, store_inits, store_updates, ds_vars>>
    /\ UNCHANGED <<engine_vars, report_vars, config_vars>>

\* a call of stock_info.update by the caller: fetch, merge and write as in
\* initialize, and history_price_data is left as merged, not cut to the range
StoreUpdate ==
    /\ store_updates < MaxUpdates
    /\ store_updates' = store_updates + 1
    /\ \E st \in {Update(Store, store_source)} :
          /\ store_cache' = st.cache
          /\ store_raw_data' = st.raw_data
          /\ store_price_data' = st.history_price_data
          /\ store_fetches' = st.fetches
    /\ ds_cache' = IF ds_cache = DsNoDirectory THEN DsNoFile ELSE ds_cache
    /\ UNCHANGED <<store_source, store_inits, store_phase, ds_data, ds_phase>>
    /\ UNCHANGED <<engine_vars, report_vars, config_vars>>

\* DataSourceBase.initialize of a data source, a first call or a further one
DataSourceInitialize ==
    /\ \E ds \in {LoadData(DsCalled(ds_cache, ds_data), store_source)} :
          /\ ds_cache' = ds.cache
          /\ ds_data' = ds.data
          /\ ds_phase' = ds.raised
    /\ UNCHANGED <<store_cache, store_source, store_raw_data, store_price_data,
                   store_fetches, store_inits, store_updates, store_phase>>
    /\ UNCHANGED <<engine_vars, report_vars, config_vars>>

StoreNext ==
    \/ StoreInitialize \/ StoreConstruct \/ KernelRun \/ StoreUpdate
    \/ DataSourceInitialize

StoreSpec == StoreInit /\ [][StoreNext]_vars

(****************************** the report ********************************)
MaxSnapshots == 4

\* the equities of the snapshots
EquitySet == {RInt(90), RInt(95), RInt(100), RInt(120)}

\* investment_record.record_daily_equity, called with a time no snapshot
\* has yet; the report is made after the last snapshot
RecordDailyEquity ==
    /\ statistics = NoStatistics
    /\ Len(daily_equity) < MaxSnapshots
    /\ \E date_time \in 1..MaxSnapshots : \E equity \in EquitySet :
          /\ \A i \in 1..Len(daily_equity) : daily_equity[i].time # date_time
          /\ daily_equity' = Append(daily_equity, [time |-> date_time, equity |-> equity])
    /\ UNCHANGED <<stock_names, interval, stocks_info, current_time, market_config, initial_money, changed_money,
                   hold_stock_number, frozen_stock, queued_orders, promises, initialized,
                   today_time, records, pc, queued_to_process, choice_list,
                   orders_made, fills, promised, history>>
    /\ UNCHANGED <<store_vars, report_vars, config_vars>>

ReportInit == EngineCreated /\ StoreRunning

ReportNext == RecordDailyEquity \/ GetStatistics

ReportSpec == ReportInit /\ [][ReportNext]_vars

(************************* a strategy of two stocks ***********************)
\* strategy_base.stock_names of a strategy of two stocks
PortfolioNames == <<"A", "B">>

\* a stock that has the same bar every day, or one whose frame was never
\* filled
PortfolioInfos ==
    {Normalized({"open", "close", "volume"}, [d \in Days |-> bar], [i \in Days |-> i]) :
        bar \in BarSet \ {NoBar}}
    \cup {NeverFilled}

PortfolioInit ==
    /\ stock_names = PortfolioNames
    /\ interval = 1
    /\ stocks_info \in [Tickets -> PortfolioInfos]
    /\ market_config \in MarketConfigs
    /\ initial_money \in InitialMoneySet
    /\ Constructed
    /\ StoreRunning

PortfolioSpec == PortfolioInit /\ [][Next]_vars

(********************* the configuration of strategies ********************)
\* strategies constructed in one process
MaxStrategies == 3

\* the values the scripts of the repository assign to the fields of a
\* market_config after construction, and the values the fields had
ExecutionModes == {CLOSE_TO_CLOSE, NEXT_OPEN}
SlippageRates == {R(5, 10000), R(1, 1000)}

\* strategy_base.__init__ with the reference config to a MarketConfig: the
\* strategy and its investment_record keep the reference
NewStrategy(config) == [market_config |-> config, investments_info |-> config]

\* the configuration strategy i trades under
ConfigOf(objects, strats, i) == objects[strats[i].market_config]

\* strategy_base(): no market_config is given, the parameter is bound to
\* its default value, the object made when the module was loaded
ConstructDefault ==
    /\ Len(strategies) < MaxStrategies
    /\ strategies' = Append(strategies, NewStrategy(1))
    /\ UNCHANGED config_objects
    /\ UNCHANGED <<engine_vars, store_vars, report_vars>>

\* strategy_base(market_config=MarketConfig.US_Market()) or
\* strategy_base(market_config=MarketConfig.CN_Market()): the call of the
\* static method makes a new object
ConstructWith ==
    /\ Len(strategies) < MaxStrategies
    /\ \E made \in {US_Market, CN_Market(CLOSE_TO_CLOSE)} :
          /\ config_objects' = Append(config_objects, made)
          /\ strategies' = Append(strategies, NewStrategy(Len(config_objects) + 1))
    /\ UNCHANGED <<engine_vars, store_vars, report_vars>>

\* strategy.market_config.execution_mode = ...
SetExecutionMode ==
    /\ \E i \in 1..Len(strategies) : \E mode \in ExecutionModes :
          config_objects' =
              [config_objects EXCEPT ![strategies[i].market_config].execution_mode = mode]
    /\ UNCHANGED strategies
    /\ UNCHANGED <<engine_vars, store_vars, report_vars>>

\* strategy.market_config.slippage_rate = ...
SetSlippageRate ==
    /\ \E i \in 1..Len(strategies) : \E rate \in SlippageRates :
          config_objects' =
              [config_objects EXCEPT ![strategies[i].market_config].slippage_rate = rate]
    /\ UNCHANGED strategies
    /\ UNCHANGED <<engine_vars, store_vars, report_vars>>

ConfigInit == EngineCreated /\ StoreRunning

ConfigNext == ConstructDefault \/ ConstructWith \/ SetExecutionMode \/ SetSlippageRate

ConfigSpec == ConfigInit /\ [][ConfigNext]_vars

(*************************** the A-share market ***************************)
\* a stock that opens at 200 and closes at 100 on day 1 and at 110 on the
\* days after, with a volume that caps no order
CN_StockInfo ==
    Normalized({"open", "close", "volume"},
               [d \in Days |-> IF d = 1 THEN Bar(200, 100, 1000000)
                               ELSE Bar(200, 110, 1000000)],
               [i \in Days |-> i])

\* the strategy buys 1,000 shares or sells 500
CN_Intents ==
    {[ticket |-> "A", action |-> Buy, amount |-> RInt(1000)],
     [ticket |-> "A", action |-> Sell, amount |-> RInt(500)]}

CN_Init ==
    /\ stock_names = StockNames
    /\ Constructed
    /\ StoreRunning
    /\ interval = 1
    /\ market_config \in {CN_Market(CLOSE_TO_CLOSE), CN_Market(NEXT_OPEN)}
    /\ initial_money = RInt(1000000)
    /\ stocks_info = [k \in Tickets |-> CN_StockInfo]

CN_MakeChoice == MakeChoiceOf(CN_Intents, {})

CN_Next ==
    \/ TickBegin \/ ExecQueued \/ CN_MakeChoice \/ HandlePromises
    \/ HandleChoice \/ RecordEquity \/ RunEnd

CN_Spec == CN_Init /\ [][CN_Next]_vars

\* run and tick are plain loops in one thread: whatever an order or a choice
\* does to the ledger, the loop over the queue takes the next order, the
\* loop over the choices takes the next choice, and tick and run go on to
\* their next part.  The three steps below say so on the position alone;
\* each is possible exactly when the step of Next at that position is.
NextPart ==
    \/ pc = "run" /\ pc' \in {"queued", "ended"}
    \/ pc = "queued" /\ queued_to_process = <<>> /\ ~LookupRaises /\ pc' = "decided"
    \/ pc = "decided" /\ ~LookupRaises /\ pc' = "choices"
    \/ pc = "choices" /\ choice_list = <<>> /\ ~LookupRaises /\ pc' = "run"

NextQueued ==
    pc = "queued" /\ queued_to_process # <<>> /\ ~LookupRaises
        /\ queued_to_process' = Tail(queued_to_process)

NextChoice ==
    pc = "choices" /\ choice_list # <<>> /\ ~LookupRaises
        /\ choice_list' = Tail(choice_list)

FairSpec ==
    Spec /\ WF_pc(NextPart) /\ WF_queued_to_process(NextQueued) /\ WF_choice_list(NextChoice)

(******************************* claims ***********************************)
\* strategy_base: the money at hand, initial_money + changed_money
Cash == RAdd(initial_money, changed_money)

Last(s) == s[Len(s)]

\* the step appends a record to the trade log
Filled == Len(records') = Len(records) + 1

\* C1: after every fill the money at hand, initial_money + changed_money, is
\* not negative: orders are clipped and never overdraw the account.
C1_CashNeverNegative ==
    \A i \in 1..Len(fills) : RGe(fills[i].money_after, Zero)

\* C2: in every reachable state the frozen shares of every stock are at
\* most the shares held.
C2_FrozenWithinHoldings ==
    \A k \in Tickets : RLe(Get(frozen_stock, k), Get(hold_stock_number, k))

\* the shares of a stock that may be sold, before and after the step
Sellable(k) == Available(hold_stock_number, frozen_stock, k)
SellableNext(k) == Available(hold_stock_number', frozen_stock', k)

\* C3: under T+1 the shares bought in a tick are no part of holdings - frozen
\* for the rest of the tick: a purchase adds its shares to the holding and
\* to frozen alike, so that the sellable shares stay as they were, a sale
\* takes at most the sellable shares, and no other step of the tick
\* changes frozen; at the start of the next tick, and not before, frozen is
\* zero and the whole holding is sellable.
C3_T1Settlement ==
    [][market_config.settlement = T1 =>
          /\ (Filled /\ Last(records').choice = Buy) =>
                LET k == Last(records').stock_info
                IN  /\ frozen_stock'[k] = RAdd(frozen_stock[k], Last(records').number)
                    /\ SellableNext(k) = Sellable(k)
          /\ (Filled /\ Last(records').choice = Sell) =>
                RLe(Last(records').number, Sellable(Last(records').stock_info))
          /\ (pc # "run" /\ ~(Filled /\ Last(records').choice = Buy)) =>
                frozen_stock' = frozen_stock
          /\ (pc = "run" /\ pc' = "queued") =>
                \A k \in Tickets : /\ Get(frozen_stock', k) = Zero
                                   /\ SellableNext(k) = Get(hold_stock_number', k)
      ]_vars

\* C3 happens: under T+1 shares were bought on day 1 and the same number of
\* shares was sold on day 2
C3_Witness ==
    /\ market_config.settlement = T1
    /\ \E i, j \in 1..Len(records) :
          /\ i < j
          /\ records[i].choice = Buy /\ records[i].time = 1
          /\ records[j].choice = Sell /\ records[j].time = 2
          /\ records[j].number = records[i].number

\* C4: every executed sale is of at most holdings - frozen as they were just
\* before the order, and a sale with nothing sellable (holdings - frozen <= 0)
\* makes no trade.
C4_SellWithinUnfrozen ==
    \A i \in 1..Len(records) :
        records[i].choice = Sell =>
            LET sellable == RSub(fills[i].hold_before, fills[i].frozen_before)
            IN  /\ RGt(sellable, Zero)
                /\ RLe(records[i].number, sellable)

\* the volume of the stock of a record on the day of the record
VolumeOf(rec) == extract_volume(stocks_info[rec.stock_info], rec.time)

\* C5 as claimed: whenever volume_limit_pct < 1, every fill is of at most
\* the day's volume times volume_limit_pct.
C5_FillWithinVolumeLimit ==
    RLt(market_config.volume_limit_pct, One) =>
        \A i \in 1..Len(records) :
            RLe(records[i].number, RMul(VolumeOf(records[i]), market_config.volume_limit_pct))

\* C5 amended: whenever volume_limit_pct < 1 and the stock has a volume
\* above zero on the day of execution, the fill is of at most that volume
\* times volume_limit_pct; on a day without volume the order is not capped.
C5_FillWithinPositiveVolumeLimit ==
    RLt(market_config.volume_limit_pct, One) =>
        \A i \in 1..Len(records) :
            RGt(VolumeOf(records[i]), Zero) =>
                RLe(records[i].number,
                    RMul(VolumeOf(records[i]), market_config.volume_limit_pct))

\* C5 happens: an order above the volume limit was filled at the limit
C5_Witness ==
    /\ RLt(market_config.volume_limit_pct, One)
    /\ \E i \in 1..Len(records) :
          /\ RGt(VolumeOf(records[i]), Zero)
          /\ RGt(fills[i].requested, records[i].number)
          /\ records[i].number = RMul(VolumeOf(records[i]), market_config.volume_limit_pct)

\* C6: a purchase whose quantity (after the liquidity cap) times the slipped
\* price is above the money at hand is cut so that its gross value is that
\* money exactly; any other purchase is filled at the full quantity.
C6_CashCap ==
    \A i \in 1..Len(records) :
        records[i].choice = Buy =>
            IF RGt(RMul(fills[i].capped, records[i].execution_price), fills[i].money_before)
            THEN /\ records[i].money_value = fills[i].money_before
                 /\ RMul(records[i].number, records[i].execution_price)
                       = fills[i].money_before
            ELSE /\ records[i].number = fills[i].capped
                 /\ records[i].money_value
                       = RMul(fills[i].capped, records[i].execution_price)

\* C6 happens: a purchase that was cut to the money at hand
C6_Witness ==
    \E i \in 1..Len(records) :
        /\ records[i].choice = Buy
        /\ RGt(fills[i].money_before, Zero)
        /\ RLt(records[i].number, fills[i].capped)
        /\ records[i].money_value = fills[i].money_before

\* C7: every fill is priced at raw * (1 + slippage) for a purchase and
\* raw * (1 - slippage) for a sale, costs max(gross * commission_rate,
\* min_commission) plus, for a sale only, gross * tax_rate; the record's
\* delta_money_value is -gross - cost for a purchase and gross - cost for a
\* sale, and the money at hand changes by that value.
C7_CostModel ==
    \A i \in 1..Len(records) :
        LET rec == records[i]
            cfg == market_config
            comm == RMax(RMul(rec.money_value, cfg.commission_rate), cfg.min_commission)
        IN  /\ rec.choice \in {Buy, Sell}
            /\ rec.choice = Buy =>
                  /\ rec.execution_price = RMul(rec.price, RAdd(One, cfg.slippage_rate))
                  /\ rec.cost = comm
                  /\ rec.delta_money_value = RSub(RNeg(rec.money_value), rec.cost)
            /\ rec.choice = Sell =>
                  /\ rec.execution_price = RMul(rec.price, RSub(One, cfg.slippage_rate))
                  /\ rec.cost = RAdd(comm, RMul(rec.money_value, cfg.tax_rate))
                  /\ rec.delta_money_value = RSub(rec.money_value, rec.cost)
            /\ fills[i].money_after = RAdd(fills[i].money_before, rec.delta_money_value)

\* C7 happens: a purchase that paid more than the minimal commission and a
\* sale are in the log
C7_Witness ==
    /\ \E i \in 1..Len(records) :
          records[i].choice = Buy /\ RGt(records[i].cost, market_config.min_commission)
    /\ \E i \in 1..Len(records) : records[i].choice = Sell

\* records i and i + 1 are a purchase that was not clipped and the sale of
\* the same shares at the same raw price on the same day
RoundTrip(i) ==
    /\ records[i].choice = Buy
    /\ records[i + 1].choice = Sell
    /\ records[i].stock_info = records[i + 1].stock_info
    /\ records[i].time = records[i + 1].time
    /\ records[i].price = records[i + 1].price
    /\ records[i].number = fills[i].requested
    /\ records[i + 1].number = records[i].number

\* C8: under T+0 and execution at the close, buying shares without clipping
\* and selling them at once at the same raw price leaves the holding as it
\* was and changes the money by exactly -(the cost of the purchase + the
\* cost of the sale, its tax included, + the slippage costs of both
\* records), which is never a gain.
C8_RoundTrip ==
    (market_config.settlement = T0 /\ market_config.execution_mode = CLOSE_TO_CLOSE) =>
        \A i \in 1..(Len(records) - 1) :
            RoundTrip(i) =>
                LET loss == RAdd(RAdd(records[i].cost, records[i + 1].cost),
                                 RAdd(records[i].slippage_cost,
                                      records[i + 1].slippage_cost))
                IN  /\ fills[i + 1].hold_after = fills[i].hold_before
                    /\ RSub(fills[i + 1].money_after, fills[i].money_before) = RNeg(loss)
                    /\ RLe(fills[i + 1].money_after, fills[i].money_before)

\* C8 happens: a round trip is in the log
C8_Witness ==
    /\ market_config.settlement = T0
    /\ market_config.execution_mode = CLOSE_TO_CLOSE
    /\ \E i \in 1..(Len(records) - 1) : RoundTrip(i)

\* an order of this action finds nothing to fill at this raw price
NothingToFill(order, raw_price) ==
    \/ order.action = DoNothing
    \/ IsNone(raw_price)
    \/ order.action = Sell /\ market_config.settlement = T1
          /\ RLe(Sellable(order.ticket), Zero)
    \/ order.action = Sell /\ Get(hold_stock_number, order.ticket) = Zero
    \/ order.action = Buy /\ Cash = Zero

\* the step executes the next choice at the close, or the next queued order
\* at the open, and there is nothing to fill
OrderWithoutFill ==
    \/ /\ pc = "choices" /\ choice_list # <<>>
       /\ market_config.execution_mode = CLOSE_TO_CLOSE
       /\ NothingToFill(Head(choice_list),
                        extract_close_price(stocks_info[Head(choice_list).ticket],
                                            today_time))
    \/ /\ pc = "queued" /\ queued_to_process # <<>>
       /\ NothingToFill(Head(queued_to_process),
                        extract_open_price(stocks_info[Head(queued_to_process).ticket],
                                           today_time))

\* C9: an order that yields no fill (no price on the day, DoNothing, or
\* nothing left after clipping) appends no record and leaves the money, the
\* holdings and the frozen shares as they were; so does every step of a
\* tick that appends no record, the release of frozen shares apart.
C9_NoFillNoChange ==
    [][/\ OrderWithoutFill =>
             UNCHANGED <<records, changed_money, hold_stock_number, frozen_stock>>
       /\ (pc # "run" /\ records' = records) =>
             UNCHANGED <<changed_money, hold_stock_number, frozen_stock>>
      ]_vars

\* C9 happens: orders were executed on a day without a price and nothing
\* has changed
C9_Witness ==
    /\ pc = "choices" /\ choice_list = <<>> /\ promises = <<>>
    /\ orders_made > 0
    /\ market_config.execution_mode = CLOSE_TO_CLOSE
    /\ IsNone(extract_close_price(stocks_info["A"], today_time))
    /\ records = <<>> /\ changed_money = Zero

\* C10: on a tick on which the stock of a pending promise has no price the
\* promise stays pending: it is not taken from the list.
C10_NoPriceKeepsPromise ==
    [][(pc = "decided" /\ pc' = "choices") =>
          \A i \in 1..Len(promises) :
              IsNone(extract_close_price(stocks_info[promises[i].ticket_name], today_time))
                  => \E j \in 1..Len(promises') : promises'[j] = promises[i]
      ]_vars

\* the step is the call of handle_promises in a tick
PromisesHandled == pc = "decided" /\ pc' = "choices"

\* the pending promise p is done in the step: it leaves the list
Done(p) == \A j \in 1..Len(promises') : promises'[j].id # p.id

\* the close price of the stock of a promise today
PriceFor(p) == extract_close_price(stocks_info[p.ticket_name], today_time)

\* C11: on a tick not after the promised date on which the stock has a
\* close price, a pending promise to buy is done if and only if the close is
\* at or below the promised price and a pending promise to sell if and only
\* if the close is at or above it; a promise that is not done stays in the
\* list and adds no choice: the choices added are as many as the promises
\* done.
C11_PromiseFiresOnPrice ==
    [][PromisesHandled =>
          /\ \A i \in 1..Len(promises) :
                (today_time <= promises[i].promise_datetime
                    /\ ~IsNone(PriceFor(promises[i]))) =>
                   /\ promises[i].kind = Buy =>
                         (Done(promises[i])
                             <=> RLe(PriceFor(promises[i]), promises[i].promise_price))
                   /\ promises[i].kind = Sell =>
                         (Done(promises[i])
                             <=> RGe(PriceFor(promises[i]), promises[i].promise_price))
                   /\ ~Done(promises[i]) =>
                         \E j \in 1..Len(promises') : promises'[j] = promises[i]
          /\ Len(choice_list') - Len(choice_list)
                = Cardinality({i \in 1..Len(promises) : Done(promises[i])})
      ]_vars

\* C11 happens: on day 1, which is not after the promised date, the stock
\* has a close price and the promise of the day was done on that price
C11_Witness ==
    /\ pc = "choices" /\ today_time = 1
    /\ ~IsNone(extract_close_price(stocks_info["A"], today_time))
    /\ Len(promised) = 1 /\ promises = <<>>

\* the choice a promise stands for: its own stock, action and number
ChoiceOf(p) == [ticket |-> p.ticket_name, action |-> p.kind, amount |-> p.number]

\* C12: a promise is done at most once in a run.  In the call of
\* handle_promises the promises done leave the list and add one choice
\* each, in their order, for their own stock with their own action and
\* number; the other promises stay as they are and in their order.  No
\* other step does a promise, no promise is done twice and a promise done
\* is never pending again.
C12_PromiseFiresOnce ==
    [][/\ PromisesHandled =>
             LET done == SelectSeq(promises, Done)
             IN  /\ promises' = SelectSeq(promises, LAMBDA p : ~Done(p))
                 /\ choice_list' = choice_list \o [i \in 1..Len(done) |-> ChoiceOf(done[i])]
                 /\ promised' = promised \o [i \in 1..Len(done) |-> done[i].id]
       /\ ~PromisesHandled => promised' = promised
       /\ \A i, j \in 1..Len(promised') : i # j => promised'[i] # promised'[j]
       /\ \A i \in 1..Len(promised') : \A j \in 1..Len(promises') :
             promises'[j].id # promised'[i]
      ]_vars

\* C12 happens: of two promises pending in a tick the first was done and the
\* second was not, and the choice of the first has been executed
C12_Witness ==
    /\ pc = "choices" /\ choice_list = <<>>
    /\ promised = <<1>>
    /\ Len(promises) = 1 /\ promises[1].id = 2
    /\ Len(records) = 1 /\ records[1].number = RInt(1)

\* the promise with this id is in the list
Pending(id) == \E i \in 1..Len(promises) : promises[i].id = id

\* the time of the last tick of the run
LastTick == 1 + ((MaxDay - 1) \div interval) * interval

\* the promise with this id is in the list and its date is before the last
\* tick of the run
PendingBeforeEnd(id) ==
    \E i \in 1..Len(promises) : promises[i].id = id /\ promises[i].promise_datetime < LastTick

\* C13: once handle_promises has run in a tick, no promise whose date is
\* before the day of the tick is pending, whatever the prices; and a
\* pending promise whose date is before the last tick of the run is
\* eventually out of the list.
C13_BoundedLifetime ==
    /\ []((initialized /\ pc \in {"choices", "run", "ended"}) =>
             \A i \in 1..Len(promises) : promises[i].promise_datetime >= today_time)
    /\ \A id \in 1..MaxOrders : PendingBeforeEnd(id) ~> ~Pending(id)

\* C13 happens: a promise to buy at 1 or below that was pending after day 1
\* has been done on day 2 at a close of 2
C13_Witness ==
    /\ pc = "choices" /\ today_time = 2
    /\ stocks_info["A"].rows[1].has /\ stocks_info["A"].rows[1].close = RInt(2)
    /\ stocks_info["A"].rows[2].has /\ stocks_info["A"].rows[2].close = RInt(2)
    /\ promised = <<1>> /\ promises = <<>>
    /\ Len(choice_list) = 1 /\ choice_list[1].action = Buy

\* the open of the bar of a stock on a day that has a bar
OpenOf(k, t) == stocks_info[k].rows[t].open

\* C14: under execution at the next open a choice of tick t, be it of the
\* strategy or of a promise, is put at the end of the queue and nothing
\* from make_choice on changes the money, the holdings, the frozen shares
\* or the log in tick t.  The next tick takes the whole queue over at its
\* start and empties it; it goes through it from the head on before
\* make_choice is called, and a fill of a queued order is dated that tick
\* and priced at that tick's open, slippage applied.
C14_NextOpenQueue ==
    [][market_config.execution_mode = NEXT_OPEN =>
          /\ (pc = "choices" /\ choice_list # <<>>) =>
                queued_orders' = Append(queued_orders, Head(choice_list))
          /\ (pc \in {"decided", "choices"} \/ (pc = "queued" /\ queued_to_process = <<>>)) =>
                UNCHANGED <<changed_money, hold_stock_number, frozen_stock, records>>
          /\ (pc = "run" /\ pc' = "queued") =>
                queued_to_process' = queued_orders /\ queued_orders' = <<>>
          /\ pc' = "decided" => queued_to_process = <<>>
          /\ (pc = "queued" /\ queued_to_process # <<>>) =>
                /\ queued_to_process' = Tail(queued_to_process)
                /\ queued_orders' = <<>>
                /\ records' = records \/ Filled
                /\ Filled =>
                      LET rec == Last(records')
                          order == Head(queued_to_process)
                      IN  /\ rec.time = today_time
                          /\ rec.stock_info = order.ticket
                          /\ rec.choice = order.action
                          /\ rec.price = OpenOf(order.ticket, today_time)
                          /\ rec.execution_price =
                                IF order.action = Buy
                                THEN RMul(OpenOf(order.ticket, today_time),
                                          RAdd(One, market_config.slippage_rate))
                                ELSE RMul(OpenOf(order.ticket, today_time),
                                          RSub(One, market_config.slippage_rate))
      ]_vars

\* C14 happens: a purchase chosen on day 1, a day with a bar, was filled on
\* day 2 at the open of day 2 and day 1 has left no record
C14_Witness ==
    /\ market_config.execution_mode = NEXT_OPEN
    /\ stocks_info["A"].rows[1].has
    /\ Len(records) = 1
    /\ records[1].time = 2 /\ records[1].choice = Buy
    /\ records[1].price = OpenOf("A", 2)
    /\ records[1].price # stocks_info["A"].rows[2].close

\* the stocks of which the strategy holds shares
HeldStocks == {k \in Tickets : Get(hold_stock_number, k) # Zero}

\* the money at hand plus the value of the shares held at today's close
RECURSIVE EquityOfHeld(_)
EquityOfHeld(held) ==
    IF held = {} THEN Cash
    ELSE LET k == CHOOSE x \in held : TRUE
         IN  RAdd(EquityOfHeld(held \ {k}),
                  RMul(Get(hold_stock_number, k),
                       extract_close_price(stocks_info[k], today_time)))

\* C15: at the end of a tick one snapshot (day, money + holdings at the
\* day's close) is appended if every stock of which shares are held has a
\* close price that day, and none otherwise: the stocks that are not held
\* do not matter.  No other step changes the snapshots.
C15_EquitySnapshot ==
    [][IF pc = "choices" /\ pc' = "run"
       THEN IF \A k \in HeldStocks :
                  ~IsNone(extract_close_price(stocks_info[k], today_time))
            THEN daily_equity' =
                    Append(daily_equity,
                           [time |-> today_time, equity |-> EquityOfHeld(HeldStocks)])
            ELSE daily_equity' = daily_equity
       ELSE daily_equity' = daily_equity
      ]_vars

\* C16: run calls tick at the start time and then at every next multiple of
\* the interval, one tick after the other in ascending time, for every such
\* time up to end_time and for none after it; no other step changes the
\* time of the strategy, nothing ends the run before the next time is
\* after end_time, and the run ends.  It does not hold: the first tick over
\* a stock whose frame was never filled raises KeyError, which leaves run
\* before any further tick.
C16_RunTicksAndEnds ==
    /\ [][/\ (pc = "run" /\ pc' = "queued") =>
                /\ today_time' = (IF initialized THEN today_time + interval ELSE 1)
                /\ today_time' <= MaxDay
          /\ ~(pc = "run" /\ pc' = "queued") => today_time' = today_time
          /\ pc' = "ended" => (initialized /\ today_time + interval > MaxDay)
          /\ pc = "ended" => pc' = "ended"
         ]_vars
    /\ <>(pc = "ended")

\* C17: make_choice has returned only when get_history_price has given it
\* the history of every stock, which a frame that was never filled does
\* not (the lookup raises KeyError).  The history it gets on a day holds
\* exactly the rows of the frame dated that day or before, each as it is
\* stored, and no row dated after that day; the rows are in the order of
\* the frame, ascending by date.
C17_NoLookAhead ==
    pc \in {"decided", "choices"} =>
        \A k \in Tickets :
            /\ stocks_info[k] # NeverFilled
            /\ history[k] # KeyError
            /\ \A i \in 1..Len(history[k].rows) :
                  /\ history[k].rows[i].date <= today_time
                  /\ stocks_info[k].rows[history[k].rows[i].date].has
                  /\ history[k].rows[i].open =
                        stocks_info[k].rows[history[k].rows[i].date].open
                  /\ history[k].rows[i].close =
                        stocks_info[k].rows[history[k].rows[i].date].close
                  /\ history[k].rows[i].volume =
                        stocks_info[k].rows[history[k].rows[i].date].volume
            /\ \A i, j \in 1..Len(history[k].rows) :
                  i < j => history[k].rows[i].date < history[k].rows[j].date
            /\ \A d \in Days :
                  (d <= today_time /\ stocks_info[k].rows[d].has) =>
                      \E i \in 1..Len(history[k].rows) : history[k].rows[i].date = d

\* C17 happens: on day 2 make_choice got the rows of day 1 and day 2, in
\* this order, from a frame whose source gave the row of day 2 first,
\* after it had got the row of day 1 alone on day 1 (a fill of day 1 is in
\* the log) while the store held the row of day 2 as well
C17_Witness ==
    /\ pc = "decided" /\ today_time = 2
    /\ stocks_info["A"].raw_data = <<2, 1>>
    /\ stocks_info["A"].rows[1].has /\ stocks_info["A"].rows[2].has
    /\ Len(history["A"].rows) = 2
    /\ history["A"].rows[1].date = 1 /\ history["A"].rows[2].date = 2
    /\ Len(records) > 0 /\ records[1].time = 1

\* C18: when the fetch of a stock fails and there is no usable cache,
\* initialize does not return: the kernel is never initialized, let alone
\* running, with a stock whose price history is empty because the fetch
\* has failed.
C18_FetchFailureAborts ==
    /\ (~store_source.ok /\ store_cache.kind # "tuple") => store_phase = "created"
    /\ (store_phase = "running" /\ store_fetches > 0 /\ ~store_source.ok) =>
          store_price_data # <<>>

\* the cache file holds rows from the start of the range asked for to its
\* end less the slack
Covering(cache) ==
    /\ cache.kind = "tuple"
    /\ \E i \in 1..Len(cache.history_price_data) :
          cache.history_price_data[i].date <= StoreStart
    /\ \E i \in 1..Len(cache.history_price_data) :
          cache.history_price_data[i].date >= StoreEnd - SlackDays

\* the file of a data source holds rows from the start of the range asked
\* for to its end less the slack
DsCovering(file) ==
    /\ file.kind = "frame"
    /\ \E i \in 1..Len(file.data) : file.data[i].date <= StoreStart
    /\ \E i \in 1..Len(file.data) : file.data[i].date >= StoreEnd - SlackDays

\* C19: a call of initialize on a cache file that covers the range asked
\* for, less the slack at its end, makes no fetch, leaves the file as it is
\* and gives the rows of the file that lie in the range; so does every
\* further call, on the same stock_info or on a new one, and all of them
\* give the same rows as long as the caller has not called update between
\* them.  A data source whose file covers the range downloads nothing
\* either: every call of its initialize returns, leaves the file and gives
\* its rows.  It does not hold of AKShareDataSource, whose initialize
\* raises TypeError on its file.
C19_CoveredCacheNoFetch ==
    [][/\ (Covering(store_cache) /\ Len(store_inits') = Len(store_inits) + 1) =>
             /\ store_fetches' = store_fetches
             /\ store_cache' = store_cache
             /\ Covering(store_cache')
             /\ store_price_data' =
                   SelectSeq(store_cache.history_price_data,
                             LAMBDA row : row.date >= StoreStart /\ row.date <= StoreEnd)
             /\ store_updates = 0 =>
                   \A i \in 1..Len(store_inits') : store_inits'[i] = store_price_data'
       /\ DsCovering(ds_cache) =>
             /\ ds_cache' = ds_cache
             /\ ds_phase' \in {ds_phase, NotRaised}
             /\ ds_data' \in {ds_data, ds_cache.data}
             /\ ds_phase' # ds_phase => ds_data' = ds_cache.data
      ]_vars

\* an amount that is cents / 100 to two decimals
ToTwoDecimals(x, cents) == RLe(RAbs(RSub(x, R(cents, 100))), R(1, 200))

\* the step appends a record
Recorded == Len(records') = Len(records) + 1

\* C20: on the A-share market with 1,000,000 of cash, the purchase of 1,000
\* shares at a close of 100 on day 1 executes at 100.1 for 100,100 with a
\* commission of 25.03, leaves 899,874.97 of cash and 1,000 frozen shares; a
\* sale on day 1 of the shares bought that day executes nothing; day 2
\* starts with no frozen share, and the sale of 500 shares at a close of 110
\* executes at 109.89 for 54,945, with a commission of 13.74, a tax of
\* 27.47 and a net credit of 54,903.79
C20_NextDayScenario ==
    [][/\ (/\ Recorded
           /\ Last(records').choice = Buy
           /\ Last(records').time = 1
           /\ Last(records').price = RInt(100)
           /\ Last(fills').requested = RInt(1000)
           /\ Last(fills').money_before = RInt(1000000))
          => (/\ Last(records').number = RInt(1000)
              /\ Last(records').execution_price = R(1001, 10)
              /\ Last(records').money_value = RInt(100100)
              /\ ToTwoDecimals(Last(records').cost, 2503)
              /\ ToTwoDecimals(Last(fills').money_after, 89987497)
              /\ frozen_stock'["A"] = RInt(1000))
       /\ (/\ pc = "choices" /\ choice_list # <<>>
           /\ choice_list' = Tail(choice_list)
           /\ market_config.execution_mode = CLOSE_TO_CLOSE
           /\ today_time = 1
           /\ Head(choice_list).action = Sell)
          => (/\ records' = records
              /\ hold_stock_number' = hold_stock_number
              /\ changed_money' = changed_money)
       /\ (today_time' = 2 /\ today_time = 1) => frozen_stock'["A"] = Zero
       /\ (/\ Recorded
           /\ Last(records').choice = Sell
           /\ Last(records').time = 2
           /\ Last(records').price = RInt(110)
           /\ Last(fills').requested = RInt(500)
           /\ RGe(RSub(Last(fills').hold_before, Last(fills').frozen_before), RInt(500)))
          => (/\ Last(records').number = RInt(500)
              /\ Last(records').execution_price = R(10989, 100)
              /\ Last(records').money_value = RInt(54945)
              /\ ToTwoDecimals(RSub(Last(records').cost,
                                    RMul(Last(records').money_value, market_config.tax_rate)),
                               1374)
              /\ ToTwoDecimals(RMul(Last(records').money_value, market_config.tax_rate),
                               2747)
              /\ ToTwoDecimals(Last(records').delta_money_value, 5490379)
              /\ Last(fills').money_after =
                     RAdd(Last(fills').money_before, Last(records').delta_money_value))
      ]_vars

\* C20 happens: three orders were made, the purchase of 1,000 shares on day 1
\* and a sale of 500 shares on day 2 are the two that executed, and the
\* third, a sale on day 1, executed nothing
C20_Witness ==
    /\ market_config.execution_mode = CLOSE_TO_CLOSE
    /\ orders_made = 3
    /\ pc = "ended"
    /\ Len(records) = 2
    /\ records[1].choice = Buy /\ records[1].time = 1 /\ records[1].number = RInt(1000)
    /\ records[2].choice = Sell /\ records[2].time = 2 /\ records[2].number = RInt(500)
    /\ fills[1].money_before = RInt(1000000)
    /\ hold_stock_number["A"] = RInt(500)

\* the equity of the snapshot of time t
EquityAt(t) == daily_equity[CHOOSE i \in 1..Len(daily_equity) : daily_equity[i].time = t].equity

SnapshotTimes == {daily_equity[i].time : i \in 1..Len(daily_equity)}

\* the largest equity of the snapshots of time t or before
RunningMax(t) ==
    CHOOSE m \in {EquityAt(u) : u \in {v \in SnapshotTimes : v <= t}} :
        \A u \in {v \in SnapshotTimes : v <= t} : RLe(EquityAt(u), m)

\* (equity[t] - running_max[t]) / running_max[t]
Fall(t) == RDiv(RSub(EquityAt(t), RunningMax(t)), RunningMax(t))

\* the equities in the order of their times
EquitiesByTime ==
    [i \in 1..Len(daily_equity) |->
        EquityAt(CHOOSE t \in SnapshotTimes : Cardinality({u \in SnapshotTimes : u <= t}) = i)]

\* C21: the maximum drawdown get_statistics gives is the least of
\* (equity[t] - running_max[t]) / running_max[t] over the snapshots taken in
\* the order of their times; it is -1/4 for the equities 100, 120, 90, 95
\* and it is not positive when all equities are positive.
C21_MaxDrawdown ==
    [][(daily_equity' = daily_equity /\ daily_equity # <<>>) =>
          /\ statistics'.has
          /\ \A t \in SnapshotTimes : RLe(statistics'.max_drawdown, Fall(t))
          /\ \E t \in SnapshotTimes : statistics'.max_drawdown = Fall(t)
          /\ EquitiesByTime = <<RInt(100), RInt(120), RInt(90), RInt(95)>> =>
                statistics'.max_drawdown = R(-1, 4)
          /\ (\A t \in SnapshotTimes : RGt(EquityAt(t), Zero)) =>
                RLe(statistics'.max_drawdown, Zero)
      ]_vars

\* C21 happens: the snapshots of 100, 120, 90 and 95, recorded out of the
\* order of their times, have the maximum drawdown -1/4
C21_Witness ==
    /\ daily_equity = <<[time |-> 2, equity |-> RInt(120)], [time |-> 4, equity |-> RInt(95)],
                        [time |-> 1, equity |-> RInt(100)], [time |-> 3, equity |-> RInt(90)]>>
    /\ statistics.has /\ statistics.max_drawdown = R(-1, 4)

\* the step goes from one part of run and tick to another
Part(from, to) == pc = from /\ pc' = to

\* the step leaves the money, the holdings, the frozen shares and the log
NoFill == UNCHANGED <<changed_money, hold_stock_number, frozen_stock, records, fills>>

\* C22: a tick goes through its parts in this order, each once: the frozen
\* shares are set to zero under T+1, the queue is executed at the open of
\* the day, make_choice is called, the promises are evaluated, the choices
\* of both are handled (put in the queue under execution at the next open)
\* and the snapshot is taken; the fills of the tick are between the first
\* and the last of these.
C22_TickOrder ==
    [][/\ pc' # pc =>
             <<pc, pc'>> \in {<<"run", "queued">>, <<"queued", "decided">>,
                              <<"decided", "choices">>, <<"choices", "run">>,
                              <<"run", "ended">>}
       /\ Part("run", "queued") =>
             /\ today_time' = current_time
             /\ market_config.settlement = T1 =>
                   \A k \in Tickets : frozen_stock'[k] = Zero
             /\ UNCHANGED <<changed_money, records, daily_equity, promises, history>>
       /\ Part("queued", "queued") =>
             /\ queued_to_process # <<>>
             /\ UNCHANGED <<today_time, daily_equity, promises, promised, history, choice_list>>
             /\ Filled => /\ Last(records').time = today_time
                          /\ Last(records').price =
                                extract_open_price(stocks_info[Last(records').stock_info],
                                                   today_time)
       /\ Part("queued", "decided") =>
             /\ queued_to_process = <<>>
             /\ NoFill
             /\ history' = [k \in Tickets |-> get_history_price(stocks_info[k], today_time)]
             /\ UNCHANGED <<today_time, daily_equity, promised, queued_orders>>
       /\ Part("decided", "choices") =>
             /\ NoFill
             /\ SubSeq(choice_list', 1, Len(choice_list)) = choice_list
             /\ Len(choice_list') - Len(choice_list) = Len(promises) - Len(promises')
             /\ UNCHANGED <<today_time, daily_equity, history, queued_orders>>
       /\ Part("choices", "choices") =>
             /\ choice_list # <<>> /\ choice_list' = Tail(choice_list)
             /\ UNCHANGED <<today_time, daily_equity, promises, promised, history>>
             /\ IF market_config.execution_mode = NEXT_OPEN
                THEN NoFill /\ queued_orders' = Append(queued_orders, Head(choice_list))
                ELSE /\ UNCHANGED queued_orders
                     /\ Filled => Last(records').time = today_time
       /\ Part("choices", "run") =>
             /\ choice_list = <<>>
             /\ NoFill
             /\ Len(daily_equity') <= Len(daily_equity) + 1
             /\ current_time' = current_time + interval
             /\ UNCHANGED <<today_time, promises, promised, history, queued_orders>>
       /\ (pc \in {"run", "ended"} \/ pc' \in {"run", "ended"}) =>
             UNCHANGED <<changed_money, records, fills>>
      ]_vars

\* C22 happens: on day 2 of a run under T+1 and execution at the next open a
\* promise done on day 1 was bought from the queue, which froze the share,
\* a choice of make_choice was put in the queue and the snapshot was taken
C22_Witness ==
    /\ pc = "run" /\ today_time = 2
    /\ market_config.settlement = T1
    /\ market_config.execution_mode = NEXT_OPEN
    /\ promised # <<>>
    /\ Len(records) = 1 /\ records[1].time = 2
    /\ RGt(frozen_stock["A"], Zero)
    /\ queued_orders # <<>>
    /\ Len(daily_equity) = 2

\* the step executes the order c alone, on the ledger as it is: the other
\* stocks are left alone; if it fills, one record of the stock and the
\* action of c is put at the end of the log, and the fill has started from
\* the money and the shares of the state and has moved them by the deltas
\* of the record; if not, nothing moves
Sequential(c) ==
    /\ \A k \in Tickets \ {c.ticket} :
          /\ Get(hold_stock_number', k) = Get(hold_stock_number, k)
          /\ Get(frozen_stock', k) = Get(frozen_stock, k)
    /\ IF Filled
       THEN /\ SubSeq(records', 1, Len(records)) = records
            /\ Last(records').stock_info = c.ticket
            /\ Last(records').choice = c.action
            /\ Last(fills').money_before = Cash
            /\ Last(fills').hold_before = Get(hold_stock_number, c.ticket)
            /\ Last(fills').frozen_before = Get(frozen_stock, c.ticket)
            /\ changed_money' = RAdd(changed_money, Last(records').delta_money_value)
            /\ hold_stock_number'[c.ticket] =
                  RAdd(Get(hold_stock_number, c.ticket), Last(records').delta_number)
       ELSE /\ records' = records
            /\ changed_money' = changed_money
            /\ Get(hold_stock_number', c.ticket) = Get(hold_stock_number, c.ticket)

\* C23: the choices of a tick are handled one after the other in the order
\* they were made, those of make_choice first, in the order of its list,
\* then those of the promises done, in the order of the list of promises.
\* Each one is executed alone (put in the queue alone, under execution at
\* the next open) on the money, the shares and the frozen shares the one
\* before has left; choices are not put in another order and not set off
\* against each other, for one stock or for several, so that the records
\* of a tick are in the order of the choices.
C23_IntentOrder ==
    [][/\ Part("decided", "choices") =>
             choice_list' =
                choice_list \o [i \in 1..Len(SelectSeq(promises, Done)) |->
                                   ChoiceOf(SelectSeq(promises, Done)[i])]
       /\ Part("choices", "choices") =>
             /\ choice_list' = Tail(choice_list)
             /\ IF market_config.execution_mode = NEXT_OPEN
                THEN NoFill /\ queued_orders' = Append(queued_orders, Head(choice_list))
                ELSE Sequential(Head(choice_list)) /\ UNCHANGED queued_orders
       /\ Part("queued", "queued") =>
             /\ queued_to_process' = Tail(queued_to_process)
             /\ Sequential(Head(queued_to_process))
      ]_vars

\* C23 happens: in one tick a purchase of B and then a purchase of A were
\* executed in this order, the second with the money the first had left,
\* which was not enough for the shares it asked for
C23_Witness ==
    /\ Len(records) = 2
    /\ records[1].time = 1 /\ records[2].time = 1
    /\ records[1].stock_info = "B" /\ records[1].choice = Buy
    /\ records[2].stock_info = "A" /\ records[2].choice = Buy
    /\ fills[2].money_before = fills[1].money_after
    /\ fills[2].money_before # initial_money
    /\ RLt(records[2].number, fills[2].capped)

\* the step moves money or shares of the strategy (the first tick, which
\* fills the dictionaries with zeros, moves none)
Moved ==
    \/ changed_money' # changed_money
    \/ \E k \in Tickets : Get(hold_stock_number', k) # Get(hold_stock_number, k)

\* C24: the trade log only grows at its end: a step that executes shares
\* puts exactly one record at the end of the log, of a number of shares
\* that is not zero, and every other step, be it the start of a tick with
\* its release of frozen shares, an order that executes nothing, a
\* snapshot, get_statistics or get_records, leaves the log as it is.
C24_LogAppendOnly ==
    [][/\ Len(records') <= Len(records) + 1
       /\ SubSeq(records', 1, Len(records)) = records
       /\ Moved <=> Filled
       /\ Filled => Last(records').number # Zero
       /\ (frozen_stock' # frozen_stock /\ ~Moved) => records' = records
       /\ (statistics' # statistics \/ returned_records' # returned_records) =>
             records' = records
      ]_vars

\* C24 happens: after a run with two records get_statistics and get_records
\* were called, the second has returned the two records, and the log is as
\* it was
C24_Witness ==
    /\ pc = "ended"
    /\ Len(records) = 2
    /\ statistics.has /\ statistics.trades = 2
    /\ returned_records.called /\ returned_records.copy = records

\* the dates of the rows of a frame
DatesOf(frame) == {frame[i].date : i \in 1..Len(frame)}

\* the price rows of the cache file before the step, none if there is no
\* file or the file is unreadable
Cached == IF store_cache.kind = "tuple" THEN store_cache.history_price_data ELSE <<>>

\* the rows the fetches of the step give, none if they fail
FetchedRows == IF store_source.ok THEN store_source.frame ELSE <<>>

\* the step is a call of initialize that fetches
Refetched == store_fetches' > store_fetches

\* C25: after a call of initialize that fetches, the price rows of the cache
\* file are the rows that were in the file together with the fetched rows:
\* one row per date of either, in ascending order of the dates, the
\* fetched row on a date both have.  A fetch that fails or gives nothing
\* leaves the rows of the file as they are.
C25_CacheMerge ==
    [][Refetched =>
          IF Cached = <<>> /\ FetchedRows = <<>>
          THEN store_cache' = store_cache
          ELSE /\ store_cache'.kind = "tuple"
               /\ DatesOf(store_cache'.history_price_data) =
                     DatesOf(Cached) \cup DatesOf(FetchedRows)
               /\ \A i \in 1..(Len(store_cache'.history_price_data) - 1) :
                     store_cache'.history_price_data[i].date <
                        store_cache'.history_price_data[i + 1].date
               /\ \A i \in 1..Len(store_cache'.history_price_data) :
                     IF store_cache'.history_price_data[i].date \in DatesOf(FetchedRows)
                     THEN \E j \in 1..Len(FetchedRows) :
                             store_cache'.history_price_data[i] = FetchedRows[j]
                     ELSE \E j \in 1..Len(Cached) :
                             store_cache'.history_price_data[i] = Cached[j]
               /\ FetchedRows = <<>> => store_cache'.history_price_data = Cached
      ]_vars

\* C25 happens: a cache file that did not cover the range was merged with
\* fetched rows; the file holds rows of both, a fetched row before a row of
\* the old file, and one fetch was enough
C25_Witness ==
    /\ store_fetches = 1
    /\ store_cache.kind = "tuple"
    /\ \E i, j \in 1..Len(store_cache.history_price_data) :
          /\ i < j
          /\ store_cache.history_price_data[i].from = "source"
          /\ store_cache.history_price_data[j].from = "cache"
    /\ \E i, j \in 1..Len(store_cache.history_price_data) :
          /\ i < j
          /\ store_cache.history_price_data[i].from = "cache"
          /\ store_cache.history_price_data[j].from = "source"

\* the rows of a frame that are in the range, in their order
InRange(frame) == SelectSeq(frame, LAMBDA row : StoreStart <= row.date /\ row.date <= StoreEnd)

\* C26: a call of initialize that finds an unreadable cache file returns
\* to its caller all the same: the read error is caught and answered with a
\* fetch, followed by one more if the rows fetched do not cover the range.
\* If the fetch gives rows, they replace the file and the call leaves those
\* of the range; if it fails, the call leaves no rows and the file as it
\* is.  A data source answers an unreadable file with a download as well
\* and raises to its caller only when a download fails.  It does not hold
\* of AKShareDataSource: after the download has given rows its initialize
\* raises the TypeError of _get_data_range, and without akshare it
\* downloads nothing.
C26_CorruptCacheRefetched ==
    [][/\ (store_cache = CorruptCacheFile /\ store_phase' # store_phase
           /\ store_phase \in {"created"}) =>
             /\ store_phase' = "initialized"
             /\ store_fetches' =
                   store_fetches + (IF CoverageComplete(FetchedRows) THEN 1 ELSE 2)
             /\ IF FetchedRows # <<>>
                THEN /\ store_cache' = CacheFile(FetchedRows, FetchedRows)
                     /\ store_price_data' = InRange(FetchedRows)
                ELSE /\ store_cache' = store_cache
                     /\ store_price_data' = <<>>
       /\ (ds_cache = DsCorruptFile /\ ds_vars' # ds_vars) =>
             IF store_source.ok
             THEN /\ ds_phase' = NotRaised
                  /\ ds_data' = FetchedRows
                  /\ ds_cache' = DsFile(FetchedRows)
             ELSE /\ ds_phase' = RaisedByDownload
                  /\ ds_cache' = ds_cache
       /\ (ds_cache = DsCorruptFile /\ ds_phase' \notin {ds_phase, NotRaised}) =>
             (ds_phase' = RaisedByDownload /\ ~store_source.ok)
       /\ store_phase' \in {"created", "initialized", "running"}
      ]_vars

\* C27: no stock is ever held in a negative quantity and every record of
\* the trade log is of a quantity above zero: a purchase never lowers the
\* holding nor raises the money, and a sale never raises the holding,
\* whatever the money at hand is.
C27_QuantitiesPositive ==
    /\ \A k \in Tickets : RGe(Get(hold_stock_number, k), Zero)
    /\ \A i \in 1..Len(records) :
          /\ RGt(records[i].number, Zero)
          /\ records[i].choice = Buy =>
                /\ RGe(records[i].delta_number, Zero)
                /\ RLe(records[i].delta_money_value, Zero)
          /\ records[i].choice = Sell => RLe(records[i].delta_number, Zero)

\* the sum of a field of the records up to i that are of stock k, or of
\* any stock if k is ""
RECURSIVE SumOfRecords(_, _, _)
SumOfRecords(i, k, field) ==
    IF i = 0 THEN Zero
    ELSE IF k = "" \/ records[i].stock_info = k
         THEN RAdd(SumOfRecords(i - 1, k, field), records[i][field])
         ELSE SumOfRecords(i - 1, k, field)

\* C28: ledger and trade log agree in every reachable state: the money at
\* hand is initial_money plus the sum of the net money changes of all
\* records, costs included, and the holding of every stock is the sum of
\* the signed share changes of the records of that stock.
C28_LedgerMatchesLog ==
    /\ RAdd(initial_money, changed_money) =
          RAdd(initial_money, SumOfRecords(Len(records), "", "delta_money_value"))
    /\ \A k \in Tickets :
          Get(hold_stock_number, k) = SumOfRecords(Len(records), k, "delta_number")

\* C28 happens: both stocks have been bought and one of them has been sold,
\* at a cost above zero
C28_Witness ==
    /\ \A k \in Tickets : \E i \in 1..Len(records) :
          records[i].stock_info = k /\ records[i].choice = Buy
    /\ \E i \in 1..Len(records) :
          records[i].choice = Sell /\ RGt(records[i].cost, Zero)

\* the open price of today of the order at the head of queued_to_process
HeadOpenPrice ==
    extract_open_price(stocks_info[Head(queued_to_process).ticket], today_time)

\* C29: a queued order is looked at on one tick only.  The start of a tick
\* takes the whole queue over and leaves it empty; every order taken over
\* is removed in turn, with at most one trade, at today's open price and
\* dated today, and with no trade and no other change when its stock has no
\* open price today; it is not put back.  Under next-open execution every
\* choice of the tick is appended to the queue without a trade, nothing
\* else is, and under close execution the queue stays empty: when a tick
\* ends the queue holds the choices of that tick only.
C29_QueuedOneTick ==
    [][/\ (pc = "run" /\ pc' = "queued") =>
             /\ queued_to_process' = queued_orders
             /\ queued_orders' = <<>>
       /\ (pc = "queued" /\ pc' = "queued") =>
             /\ queued_to_process # <<>>
             /\ queued_to_process' = Tail(queued_to_process)
             /\ queued_orders' = <<>>
             /\ IsNone(HeadOpenPrice) => NoFill
             /\ Len(records') \in {Len(records), Len(records) + 1}
             /\ Filled =>
                   /\ Last(records').time = today_time
                   /\ Last(records').price = HeadOpenPrice
                   /\ Last(records').stock_info = Head(queued_to_process).ticket
                   /\ Last(records').choice = Head(queued_to_process).action
       /\ pc \in {"queued", "decided"} => queued_orders' = <<>>
       /\ (pc = "choices" /\ pc' = "choices") =>
             IF market_config.execution_mode = NEXT_OPEN
             THEN /\ queued_orders' = Append(queued_orders, Head(choice_list))
                  /\ NoFill
             ELSE queued_orders' = <<>>
       /\ (pc = "choices" /\ pc' = "run") =>
             /\ choice_list = <<>>
             /\ queued_orders' = queued_orders
       /\ pc' # "queued" => queued_to_process' = <<>>
      ]_vars

\* C29 happens: under next-open execution the choices of day 1 were queued,
\* taken over on day 2, on which the stock has no open price, and removed
\* without a trade
C29_Witness ==
    /\ market_config.execution_mode = NEXT_OPEN
    /\ interval = 1
    /\ pc = "queued" /\ today_time = 2
    /\ orders_made > 0 /\ promises = <<>> /\ promised = <<>>
    /\ queued_to_process = <<>> /\ queued_orders = <<>>
    /\ records = <<>>
    /\ \A k \in Tickets :
          /\ IsNone(extract_open_price(stocks_info[k], 2))
          /\ ~IsNone(extract_close_price(stocks_info[k], 1))

\* C30: every strategy has a configuration of its own: a step that assigns
\* to a field of the market_config of one strategy changes the
\* configuration of no other strategy, of those constructed without a
\* market_config either.
C30_ConfigPerStrategy ==
    [][Len(strategies') = Len(strategies) =>
          \A i, j \in 1..Len(strategies) :
              (/\ ConfigOf(config_objects', strategies', i)
                      # ConfigOf(config_objects, strategies, i)
               /\ ConfigOf(config_objects', strategies', j)
                      # ConfigOf(config_objects, strategies, j)) => i = j
      ]_vars
====
